---- MODULE Spec2Model ----
(***************************************************************************)
(* A model of the Asteroids game core: the entity store (game::data), the  *)
(* entities it owns, the three threads of main() and the thread-safe queue *)
(* the staging areas are built on.                                         *)
(*                                                                         *)
(* Numbers.  The program computes in float.  The model computes in fixed   *)
(* point: a length is an integer number of tenths of a pixel, a velocity   *)
(* tenths of a pixel per second, an angle whole degrees.  A division       *)
(* rounds to the nearest integer (RoundDiv), a square root likewise        *)
(* (RSqrt), and cos/sin of a multiple of three degrees come from a table   *)
(* of thousandths (CosTable).                                              *)
(***************************************************************************)
EXTENDS Integers, Sequences, FiniteSets, TLC

(***************************************************************************)
(* Bounds of the model.                                                    *)
(***************************************************************************)
\* Tick blocks the main loop starts while the game is running.
MaxTicks == 2
\* add_asteroid() calls made by the spawner thread.
MaxSpawn == 1
\* Intent calls made by the input thread.
MaxKeyCalls == 1

(***************************************************************************)
(* Program constants, in the model's units.                                *)
(***************************************************************************)
\* unsigned int win_x{ 500 }, win_y{ 500 }: tenths of a pixel.
win_x == 5000
win_y == 5000
\* tick_rate = 0.01f: a product with tick_rate is a division by 100.
tick_rate_inv == 100
\* max_speed{ 3 / tick_rate } = 300 px/s.
max_speed == 30 * tick_rate_inv
\* score_per_asteroid = 100.
score_per_asteroid == 100
\* asteroid::size_scale_factor = 10 (pixels of radius per tier).
size_scale_factor == 100
\* asteroid::speed_scale_factor = 0.2f, as tenths.
asteroid_speed_tenths == 2
\* asteroid::initial_asteroid_size: the tier add_asteroid() spawns with.
initial_asteroid_size == 3
\* player::turn_angle = 3 degrees.
turn_angle == 3
\* The score popup: character size 10 (its radius), velocity {0,-50}, offset {30,0}.
popup_character_size == 100
popup_speed == 500
popup_offset == 300

(***************************************************************************)
(* Fixed-point arithmetic and vectors (sf::Vector2f).                      *)
(***************************************************************************)
Abs(a) == IF a < 0 THEN -a ELSE a

\* a / b rounded to the nearest integer, symmetric about 0 (b > 0).
RoundDiv(a, b) ==
    IF a >= 0 THEN (2 * a + b) \div (2 * b) ELSE -((2 * (-a) + b) \div (2 * b))

RECURSIVE SqrtSearch(_, _, _)
SqrtSearch(n, lo, hi) ==
    IF lo >= hi THEN lo
    ELSE LET mid == (lo + hi + 1) \div 2
         IN IF mid * mid <= n THEN SqrtSearch(n, mid, hi)
                              ELSE SqrtSearch(n, lo, mid - 1)

\* std::sqrt, rounded to the nearest integer.
RSqrt(n) ==
    LET s == SqrtSearch(n, 0, 46340)
    IN IF n - s * s > s THEN s + 1 ELSE s

VAdd(a, b) == <<a[1] + b[1], a[2] + b[2]>>
VSub(a, b) == <<a[1] - b[1], a[2] - b[2]>>
\* sf::Vector2f::lengthSquared
LengthSquared(v) == v[1] * v[1] + v[2] * v[2]
\* sf::Vector2f::length
Length(v) == RSqrt(LengthSquared(v))
\* v * tick_rate
TimesTickRate(v) == <<RoundDiv(v[1], tick_rate_inv), RoundDiv(v[2], tick_rate_inv)>>

\* cos of 0, 3, ..., 90 degrees in thousandths.
CosTable ==
    <<1000, 999, 995, 988, 978, 966, 951, 934, 914, 891, 866, 839, 809, 777,
      743, 707, 669, 629, 588, 545, 500, 454, 407, 358, 309, 259, 208, 156,
      105, 52, 0>>

Cos1000(deg) ==
    LET d == deg % 360
    IN IF d <= 90 THEN CosTable[(d \div 3) + 1]
       ELSE IF d <= 180 THEN -CosTable[((180 - d) \div 3) + 1]
       ELSE IF d <= 270 THEN -CosTable[((d - 180) \div 3) + 1]
       ELSE CosTable[((360 - d) \div 3) + 1]

Sin1000(deg) == Cos1000(deg + 270)

\* sf::Vector2f::rotatedBy(sf::degrees(deg))
RotatedBy(v, deg) ==
    <<RoundDiv(v[1] * Cos1000(deg) - v[2] * Sin1000(deg), 1000),
      RoundDiv(v[1] * Sin1000(deg) + v[2] * Cos1000(deg), 1000)>>

\* The vector of length len in the direction of v (v /= 0): what
\* Vector2f{len, 0}.rotatedBy(v.angle()) computes.
Towards(v, len) ==
    <<RoundDiv(len * v[1], Length(v)), RoundDiv(len * v[2], Length(v))>>

(***************************************************************************)
(* Free functions of game_entities.                                        *)
(***************************************************************************)
\* shape_within_bounds(pos, radius, wdw)
shape_within_bounds(pos, radius) ==
    ~(\/ pos[1] - radius < 0
      \/ pos[2] - radius < 0
      \/ pos[1] + radius > win_x
      \/ pos[2] + radius > win_y)


(***************************************************************************)
(* State.                                                                  *)
(***************************************************************************)
VARIABLES
    \* game::data
    m_entities,             \* thread_safe::vector<polymorphic<entity>>
    m_incoming_entities,    \* thread_safe::queue<polymorphic<entity>>
    m_asteroids,            \* thread_safe::vector<unique_ptr<asteroid>>
    m_incoming_asteroids,   \* thread_safe::queue<unique_ptr<asteroid>>
    m_game_score,           \* std::atomic<int>
    m_game_over,            \* std::atomic_flag
    m_game_over_screen,     \* std::optional<game_over_screen>: has_value()
    \* game::player
    player,                 \* [pos, vel, accel, rot]
    m_movement,             \* std::atomic<uint8_t>: the set of bits that are set
    shots,                  \* shots fired (player::shoot's last_shot clock)
    \* the main thread
    pc,                     \* where the main loop is
    it_e,                   \* for_each over m_entities: next index, 0 when none runs
    it_a,                   \* for_each over m_asteroids: next index, 0 when none runs
    ticks,                  \* tick blocks started while the game was running
    \* the spawner thread
    spawner_pc, spawned,
    \* the input thread
    key_calls,
    \* identity of created objects
    next_id,
    \* history, for stating properties
    seen,                   \* ids a draw, tick, sweep or collision visitor was handed
    tick_log,               \* <<kind, id>> ticked by the last data::tick(), in order
    staged_at_tick          \* ids staged when the last data::tick() was called

store == <<m_entities, m_incoming_entities, m_asteroids, m_incoming_asteroids,
           m_game_score, m_game_over, m_game_over_screen>>
main_thread == <<pc, it_e, it_a, ticks>>
history == <<seen, tick_log, staged_at_tick>>
game_vars == <<store, player, m_movement, shots, main_thread, spawner_pc, spawned,
               key_calls, next_id, history>>

\* A thread_safe::queue<int> under test: producers push, one consumer pops.
VARIABLES
    m_dat,                  \* std::queue<T>
    m_mut,                  \* std::mutex: the thread that holds it, or "free"
    m_cond,                 \* std::condition_variable: the consumer is blocked in wait
    q_pc,                   \* each thread's position in its call
    q_pushed,               \* how many values each producer has pushed
    q_log                   \* the values the consumer's pops returned, in order

queue_vars == <<m_dat, m_mut, m_cond, q_pc, q_pushed, q_log>>

\* Producer threads of a store under test: add_asteroid() calls each has made.
VARIABLES adds

\* Entities under test, outside any store.
VARIABLES
    ents,                   \* the entities the test holds
    ent_pc,                 \* "make", "run", or "trapped" after undefined behaviour
    ent_ops                 \* operations applied so far

ent_vars == <<ents, ent_pc, ent_ops>>

\* A thread_safe::vector under test: one thread calls push_back, one erase_if
\* and one for_each.
VARIABLES
    m_vec,                  \* std::vector<T>: elements [id, whole]
    vec_mut,                \* std::shared_mutex: the thread that holds it, or "free"
    vec_pc,                 \* each thread's position in its call
    vec_calls,              \* calls each thread has completed
    vec_it,                 \* for_each: next index, 0 when none runs
    vec_snap,               \* ids in the vector when for_each last took the lock
    vec_log                 \* <<id, whole>> handed to the visitor by that for_each

vec_vars == <<m_vec, vec_mut, vec_pc, vec_calls, vec_it, vec_snap, vec_log>>

\* A thread_safe::queue with several consumers; it shares m_dat and m_mut with
\* the queue above.
VARIABLES
    waiting,                \* std::condition_variable: the threads blocked in m_cond.wait
    cq_pc,                  \* each thread's position in its call
    cq_val,                 \* a producer's in_val argument, a consumer's out parameter
    cq_ret,                 \* each consumer's last try_pop result: "none", "true", "false"
    cq_pushed,              \* pushes done
    cq_got                  \* <<consumer, value>> of the pops that returned a value, in order

cq_vars == <<waiting, cq_pc, cq_val, cq_ret, cq_pushed, cq_got>>

\* main() and its input thread around control_input, which is the queue above.
VARIABLES
    main_pc,                \* the main thread's position in main()
    in_pc,                  \* game_process_thread's position in its lambda
    is_open,                \* sf::RenderWindow::isOpen()
    stop_requested          \* the stop state of game_process_thread's stop_token

input_vars == <<main_pc, in_pc, is_open, stop_requested>>

\* polymorphic<entity> objects under test and the free store they own
\* entities in.
VARIABLES
    heap,                   \* the objects allocated so far: [live, obj], by address
    polys,                  \* each polymorphic: [state, cloner, ptr]; ptr 0 is nullptr
    poly_pc,                \* "run", or "trapped" after undefined behaviour
    poly_log                \* the operations applied, in order

poly_vars == <<heap, polys, poly_pc, poly_log>>

\* Calls made by concurrent callers in the tests of the atomics.
VARIABLES
    call_log                \* the completed calls, in the order they took effect

\* A thread_safe::shape under test: threads call set_position, move and
\* get_position on it.
VARIABLES
    sh_pos,                 \* the sf::Shape's m_position: <<x, y>>
    sh_mut,                 \* std::shared_mutex: [excl: a thread or "free", shared: threads]
    sh_pc,                  \* each thread's position in its call
    sh_arg,                 \* a writer's target position, a reader's result so far
    sh_calls,               \* calls each thread has completed
    sh_written              \* the initial position and those the completed writes produced

shape_vars == <<sh_pos, sh_mut, sh_pc, sh_arg, sh_calls, sh_written>>

\* The mutexes of the program and the threads that lock them.
VARIABLES
    lk_prog,                \* each thread's lock operations still to do in its round
    lk_held,                \* the mutexes each thread holds, in the order it locked them
    lk_order,               \* <<thread, held, locked>>: the thread locked one while holding the other
    lk_rounds               \* rounds each thread has started

lock_vars == <<lk_prog, lk_held, lk_order, lk_rounds>>

\* A function under test.
VARIABLES
    fn_in,                  \* the arguments of the call
    fn_out                  \* what the call returned; done is false before it

fn_vars == <<fn_in, fn_out>>

aux_vars == <<call_log, shape_vars, lock_vars, fn_vars>>

tests == <<ent_vars, vec_vars, cq_vars, input_vars, poly_vars, aux_vars>>

vars == <<game_vars, queue_vars, adds, tests>>

(***************************************************************************)
(* Entities.                                                               *)
(***************************************************************************)
\* asteroid::asteroid(initial_position, initial_angle, initial_size)
asteroid(id, initial_position, initial_angle, initial_size) ==
    [id |-> id,
     pos |-> initial_position,
     vel |-> RotatedBy(<<(asteroid_speed_tenths * max_speed) \div 10, 0>>, initial_angle),
     angle |-> initial_angle,
     size |-> initial_size,
     expired |-> FALSE]

\* asteroid::get_radius: the CircleShape's radius, size_scale_factor * size.
asteroid_radius(a) == size_scale_factor * a.size

\* projectile::get_start_vel
get_start_vel(rot) == RotatedBy(<<-max_speed, 0>>, rot)

\* projectile::projectile(start_position, start_rotation)
projectile(id, start_position, start_rotation) ==
    [id |-> id, kind |-> "projectile", pos |-> start_position,
     vel |-> get_start_vel(start_rotation), expired |-> FALSE]

\* temp_text scorecard{500ms, {0,-50}, "100"}, character size 10, at position.
temp_text(id, position) ==
    [id |-> id, kind |-> "temp_text", pos |-> position,
     vel |-> <<0, -popup_speed>>, expired |-> FALSE]

\* projectile::get_radius is |origin - point(0)| = 0; text::get_radius is the
\* character size.
entity_radius(e) == IF e.kind = "projectile" THEN 0 ELSE popup_character_size

\* projectile::is_collided(asteroid): the front point, which is the position
\* (origin and point(0) are both {0,0}), inside the asteroid's circle.
projectile_is_collided(p, a) ==
    LengthSquared(VSub(p.pos, a.pos)) <= asteroid_radius(a) * asteroid_radius(a)

\* asteroid::tick
asteroid_tick(a) ==
    LET moved == VAdd(a.pos, TimesTickRate(a.vel))
        percent_x == RoundDiv(win_x, 10)
        percent_y == RoundDiv(win_y, 10)
        out == \/ moved[1] < -percent_x
               \/ moved[2] < -percent_y
               \/ moved[1] > win_x + percent_x
               \/ moved[2] > win_y + percent_y
    IN [a EXCEPT !.pos = moved, !.expired = a.expired \/ out]

\* on_collision whose children are as large as their parent.
on_collision_children_same_size(a, phase) ==
    IF a.size = 1 THEN <<>>
    ELSE <<[pos |-> a.pos, angle |-> phase, size |-> a.size],
           [pos |-> a.pos, angle |-> phase - 180, size |-> a.size]>>

\* on_collision with the second child sent off at the first one's phase.
on_collision_children_same_phase(a, phase) ==
    IF a.size = 1 THEN <<>>
    ELSE <<[pos |-> a.pos, angle |-> phase, size |-> a.size - 1],
           [pos |-> a.pos, angle |-> phase, size |-> a.size - 1]>>

\* The asteroids asteroid::on_collision stages: none for size 1, else two of
\* size - 1 at get_position(), at phase and phase - 180 degrees.
on_collision_children(a, phase) ==
    IF a.size = 1 THEN <<>>
    ELSE <<[pos |-> a.pos, angle |-> phase, size |-> a.size - 1],
           [pos |-> a.pos, angle |-> phase - 180, size |-> a.size - 1]>>

\* on_collision forgetting m_expired.test_and_set().
on_collision_self_alive(a) == a

\* The asteroid after asteroid::on_collision: marked dead.
on_collision_self(a) == [a EXCEPT !.expired = TRUE]

\* text::tick followed by temp_text::tick; elapsed: the lifetime has run out.
temp_text_tick(e, elapsed) ==
    LET moved == VAdd(e.pos, TimesTickRate(e.vel))
        out == ~shape_within_bounds(moved, entity_radius(e))
    IN [e EXCEPT !.pos = moved, !.expired = e.expired \/ out \/ elapsed]

\* projectile::tick up to the bounds test.
projectile_move(e) ==
    LET moved == VAdd(e.pos, TimesTickRate(e.vel))
    IN [e EXCEPT !.pos = moved,
                 !.expired = e.expired \/ ~shape_within_bounds(moved, entity_radius(e))]

\* prng_gen(0.0f, 180.0f) in asteroid::on_collision: the phases drawn.
Phases == {0, 45}

Ids(seq) == {seq[i].id : i \in 1..Len(seq)}


(***************************************************************************)
(* The player.                                                             *)
(***************************************************************************)
\* player::create_player: the points of the ConvexShape and its origin.
player_point(idx) ==
    CASE idx = 0 -> <<200, 0>>
      [] idx = 1 -> <<240, -120>>
      [] idx = 2 -> <<0, 0>>
      [] idx = 3 -> <<240, 120>>
player_origin == <<160, 0>>

\* player::get_radius
player_radius == Length(VSub(player_origin, player_point(3)))

\* m_shape.get_transform().transformPoint(m_shape.get_point(idx))
transformed_point(p, idx) ==
    VAdd(p.pos, RotatedBy(VSub(player_point(idx), player_origin), p.rot))

\* A test against the infinite line through the two points.
collides_with_infinite_line(point_a, point_b, other) ==
    LET c_vector == VSub(point_a, other.pos)
        p_vector == VSub(point_a, point_b)
        inner_product == p_vector[1] * c_vector[1] + p_vector[2] * c_vector[2]
        adjacent_length == RoundDiv(inner_product, Length(p_vector))
        opposite_squared == LengthSquared(c_vector) - adjacent_length * adjacent_length
    IN /\ opposite_squared >= 0
       /\ opposite_squared <= asteroid_radius(other) * asteroid_radius(other)

\* collides_with_line(point_a, point_b, other)
collides_with_line(point_a, point_b, other) ==
    LET c_vector == VSub(point_a, other.pos)
        p_vector == VSub(point_a, point_b)
        inner_product == p_vector[1] * c_vector[1] + p_vector[2] * c_vector[2]
        adjacent_length == RoundDiv(inner_product, Length(p_vector))
        opposite_squared == LengthSquared(c_vector) - adjacent_length * adjacent_length
    IN /\ adjacent_length > 0
       /\ adjacent_length < Length(p_vector)
       \* std::sqrt of a negative number is NaN, and NaN <= radius is false
       /\ opposite_squared >= 0
       /\ opposite_squared <= asteroid_radius(other) * asteroid_radius(other)

\* A hull test whose cheap reject fires beyond rPlayer + rAsteroid.
player_is_collided_tight_reject(p, other) ==
    LET test_radius == player_radius + asteroid_radius(other)
        points == [i \in 1..3 |-> transformed_point(p, i)]
    IN IF LengthSquared(VSub(p.pos, other.pos)) > test_radius * test_radius
       THEN FALSE
       ELSE \/ \E i \in 1..3 :
                 LengthSquared(VSub(points[i], other.pos))
                     < asteroid_radius(other) * asteroid_radius(other)
            \/ collides_with_line(points[1], points[2], other)
            \/ collides_with_line(points[1], points[3], other)
            \/ collides_with_line(points[2], points[3], other)

\* A hull test that counts a vertex on the circle as inside.
player_is_collided_touching(p, other) ==
    LET test_radius == player_radius + asteroid_radius(other)
        points == [i \in 1..3 |-> transformed_point(p, i)]
    IN IF LengthSquared(VSub(p.pos, other.pos)) > 9 * test_radius * test_radius
       THEN FALSE
       ELSE \/ \E i \in 1..3 :
                 LengthSquared(VSub(points[i], other.pos))
                     <= asteroid_radius(other) * asteroid_radius(other)
            \/ collides_with_line(points[1], points[2], other)
            \/ collides_with_line(points[1], points[3], other)
            \/ collides_with_line(points[2], points[3], other)

\* player::is_collided(asteroid)
player_is_collided(p, other) ==
    LET test_radius == player_radius + asteroid_radius(other)
        points == [i \in 1..3 |-> transformed_point(p, i)]
    IN IF LengthSquared(VSub(p.pos, other.pos)) > 9 * test_radius * test_radius
       THEN FALSE
       ELSE \/ \E i \in 1..3 :
                 LengthSquared(VSub(points[i], other.pos))
                     < asteroid_radius(other) * asteroid_radius(other)
            \/ collides_with_line(points[1], points[2], other)
            \/ collides_with_line(points[1], points[3], other)
            \/ collides_with_line(points[2], points[3], other)

\* A player::tick that tests the backward bit before the forward bit and the
\* right bit before the left bit.
player_move_backward_first(p, movement) ==
    LET under_max_speed ==
            16 * LengthSquared(p.vel) <= 9 * max_speed * max_speed
        accel ==
            IF "backward" \in movement /\ under_max_speed
            THEN VAdd(p.accel, RotatedBy(<<100, 0>>, p.rot))
            ELSE IF "forward" \in movement /\ under_max_speed
            THEN VAdd(p.accel, RotatedBy(<<-100, 0>>, p.rot))
            ELSE IF LengthSquared(p.vel) > 0
            THEN Towards(p.vel, -1000)
            ELSE p.accel
        rot ==
            IF "right" \in movement THEN (p.rot + turn_angle) % 360
            ELSE IF "left" \in movement THEN (p.rot - turn_angle) % 360
            ELSE p.rot
        new_vel == VAdd(p.vel, TimesTickRate(accel))
        new_pos == VAdd(p.pos, TimesTickRate(new_vel))
        centre == <<win_x \div 2, win_y \div 2>>
    IN IF shape_within_bounds(new_pos, player_radius)
       THEN [pos |-> new_pos, vel |-> new_vel, accel |-> accel, rot |-> rot]
       ELSE IF new_pos[2] - player_radius < 0 \/ new_pos[2] + player_radius > win_y
       THEN [pos |-> VAdd(p.pos, TimesTickRate(VSub(centre, p.pos))),
             vel |-> <<p.vel[1], 0>>, accel |-> <<accel[1], 0>>, rot |-> rot]
       ELSE [pos |-> VAdd(p.pos, TimesTickRate(VSub(centre, p.pos))),
             vel |-> <<0, p.vel[2]>>, accel |-> <<0, accel[2]>>, rot |-> rot]

\* A player::tick that accelerates at any speed.
player_move_no_limit(p, movement) ==
    LET under_max_speed == TRUE
        accel ==
            IF "forward" \in movement /\ under_max_speed
            THEN VAdd(p.accel, RotatedBy(<<-100, 0>>, p.rot))
            ELSE IF "backward" \in movement /\ under_max_speed
            THEN VAdd(p.accel, RotatedBy(<<100, 0>>, p.rot))
            ELSE IF LengthSquared(p.vel) > 0
            THEN Towards(p.vel, -1000)
            ELSE p.accel
        rot ==
            IF "left" \in movement THEN (p.rot - turn_angle) % 360
            ELSE IF "right" \in movement THEN (p.rot + turn_angle) % 360
            ELSE p.rot
        new_vel == VAdd(p.vel, TimesTickRate(accel))
        new_pos == VAdd(p.pos, TimesTickRate(new_vel))
        centre == <<win_x \div 2, win_y \div 2>>
    IN IF shape_within_bounds(new_pos, player_radius)
       THEN [pos |-> new_pos, vel |-> new_vel, accel |-> accel, rot |-> rot]
       ELSE IF new_pos[2] - player_radius < 0 \/ new_pos[2] + player_radius > win_y
       THEN [pos |-> VAdd(p.pos, TimesTickRate(VSub(centre, p.pos))),
             vel |-> <<p.vel[1], 0>>, accel |-> <<accel[1], 0>>, rot |-> rot]
       ELSE [pos |-> VAdd(p.pos, TimesTickRate(VSub(centre, p.pos))),
             vel |-> <<0, p.vel[2]>>, accel |-> <<0, accel[2]>>, rot |-> rot]

\* player::tick between the game-over test and the collision visitor:
\* acceleration, rotation, then the move or the push back into the window.
\* movement is the snapshot of m_movement the tick loaded.
player_move(p, movement) ==
    LET under_max_speed ==
            16 * LengthSquared(p.vel) <= 9 * max_speed * max_speed
        accel ==
            IF "forward" \in movement /\ under_max_speed
            THEN VAdd(p.accel, RotatedBy(<<-100, 0>>, p.rot))
            ELSE IF "backward" \in movement /\ under_max_speed
            THEN VAdd(p.accel, RotatedBy(<<100, 0>>, p.rot))
            ELSE IF LengthSquared(p.vel) > 0
            THEN Towards(p.vel, -1000)
            ELSE p.accel
        rot ==
            IF "left" \in movement THEN (p.rot - turn_angle) % 360
            ELSE IF "right" \in movement THEN (p.rot + turn_angle) % 360
            ELSE p.rot
        new_vel == VAdd(p.vel, TimesTickRate(accel))
        new_pos == VAdd(p.pos, TimesTickRate(new_vel))
        centre == <<win_x \div 2, win_y \div 2>>
    IN IF shape_within_bounds(new_pos, player_radius)
       THEN [pos |-> new_pos, vel |-> new_vel, accel |-> accel, rot |-> rot]
       ELSE IF new_pos[2] - player_radius < 0 \/ new_pos[2] + player_radius > win_y
       THEN [pos |-> VAdd(p.pos, TimesTickRate(VSub(centre, p.pos))),
             vel |-> <<p.vel[1], 0>>, accel |-> <<accel[1], 0>>, rot |-> rot]
       ELSE [pos |-> VAdd(p.pos, TimesTickRate(VSub(centre, p.pos))),
             vel |-> <<0, p.vel[2]>>, accel |-> <<0, accel[2]>>, rot |-> rot]

\* Where and at what rotation player::shoot adds the projectile: point 2 of the
\* hull, after this tick's rotation and before its move.
shoot_from(p, movement) ==
    LET turned == [p EXCEPT !.rot = player_move(p, movement).rot]
    IN [pos |-> transformed_point(turned, 2), rot |-> turned.rot]

\* The poses the player starts a run in: the position is the constructor's
\* argument, the rotation the ConvexShape's initial one.
PlayerPoses == {[pos |-> <<460, 2500>>, rot |-> 0]}


(***************************************************************************)
(* game::data                                                              *)
(***************************************************************************)
\* The four sides data::add_asteroid() draws with prng_gen(0, 3), the
\* coordinates it draws along the side, and the perturbations in degrees.
Sides == 0..3
EdgeDraws == {2500}
Perturbations == {0}

\* sf::Vector2f::angle() on the grid of whole multiples of three degrees: the
\* grid direction nearest to v.
AngleGrid == {3 * k - 180 : k \in 1..120}
Dot(v, deg) == v[1] * Cos1000(deg) + v[2] * Sin1000(deg)
Angle(v) ==
    LET dots == [d \in AngleGrid |-> Dot(v, d)]
    IN CHOOSE d \in AngleGrid : \A e \in AngleGrid : dots[d] >= dots[e]

\* data::add_asteroid(): the position on the drawn side and the angle of the
\* velocity towards the centre.
spawn_position(side, r) ==
    CASE side = 0 -> <<0, r>>
      [] side = 1 -> <<win_x, r>>
      [] side = 2 -> <<r, 0>>
      [] side = 3 -> <<r, win_y>>
spawn_angle(pos, perturbation) ==
    Angle(VSub(<<win_x \div 2, win_y \div 2>>, RotatedBy(pos, perturbation)))

\* The positions and angles data::add_asteroid() can construct its asteroid with.
spawn_draws ==
    {[pos |-> spawn_position(side, r),
      angle |-> spawn_angle(spawn_position(side, r), perturbation)] :
         side \in Sides, r \in EdgeDraws, perturbation \in Perturbations}

\* thread_safe::queue::push
push(queue, value) == Append(queue, value)

\* for_all_asteroids walking the staged asteroids as well as the live ones.
for_all_asteroids_and_staged == m_asteroids \o m_incoming_asteroids

\* data::for_all_asteroids hands its visitor the live asteroids.
for_all_asteroids == m_asteroids

\* data::num_entities
num_entities == Len(m_entities) + Len(m_asteroids)

\* The queue after asteroid::on_collision's add_asteroid calls, ids from id on.
stage_children(queue, a, phase, id) ==
    LET c == on_collision_children(a, phase)
    IN IF c = <<>> THEN queue
       ELSE push(push(queue, asteroid(id, c[1].pos, c[1].angle, c[1].size)),
                 asteroid(id + 1, c[2].pos, c[2].angle, c[2].size))

\* An erase that removes the first expired element only.
erase_first_expired(seq) ==
    IF \A i \in 1..Len(seq) : ~seq[i].expired THEN seq
    ELSE LET f == CHOOSE i \in 1..Len(seq) :
                      seq[i].expired /\ \A j \in 1..(i - 1) : ~seq[j].expired
         IN SubSeq(seq, 1, f - 1) \o SubSeq(seq, f + 1, Len(seq))

\* thread_safe::vector::erase_if with data::kill_expired's eraser
erase_expired(seq) == SelectSeq(seq, LAMBDA x : ~x.expired)


(***************************************************************************)
(* The game: the main loop, the spawner thread and the input thread of     *)
(* main().                                                                 *)
(***************************************************************************)
not_game == <<queue_vars, adds, tests>>

\* No test outside the store runs.
NoEnts == ents = <<>> /\ ent_pc = "off" /\ ent_ops = 0
NoVec ==
    /\ m_vec = <<>> /\ vec_mut = "free" /\ vec_pc = <<>> /\ vec_calls = <<>>
    /\ vec_it = 0 /\ vec_snap = <<>> /\ vec_log = <<>>
NoCq ==
    /\ waiting = {} /\ cq_pc = <<>> /\ cq_val = <<>> /\ cq_ret = <<>>
    /\ cq_pushed = 0 /\ cq_got = <<>>
NoInput ==
    /\ main_pc = "off" /\ in_pc = "off"
    /\ is_open = FALSE /\ stop_requested = FALSE
NoPoly == heap = <<>> /\ polys = <<>> /\ poly_pc = "off" /\ poly_log = <<>>
NoShape ==
    /\ sh_pos = <<0, 0>> /\ sh_mut = <<>> /\ sh_pc = <<>> /\ sh_arg = <<>>
    /\ sh_calls = <<>> /\ sh_written = {}
NoLocks == lk_prog = <<>> /\ lk_held = <<>> /\ lk_order = {} /\ lk_rounds = <<>>
NoFn == fn_in = <<>> /\ fn_out = [done |-> FALSE]
NoAux == call_log = <<>> /\ NoShape /\ NoLocks /\ NoFn
NoTests == NoEnts /\ NoVec /\ NoCq /\ NoInput /\ NoPoly /\ NoAux

InitGame ==
    /\ m_entities = <<>> /\ m_incoming_entities = <<>>
    /\ m_asteroids = <<>> /\ m_incoming_asteroids = <<>>
    /\ m_game_score = 0
    /\ m_game_over = FALSE
    /\ m_game_over_screen = FALSE
    /\ \E pose \in PlayerPoses :
           player = [pos |-> pose.pos, vel |-> <<0, 0>>, accel |-> <<0, 0>>,
                     rot |-> pose.rot]
    /\ m_movement = {}
    /\ shots = 0
    /\ pc = "draw" /\ it_e = 0 /\ it_a = 0 /\ ticks = 0
    /\ spawner_pc = "check" /\ spawned = 0
    /\ key_calls = 0
    /\ next_id = 1
    /\ seen = {} /\ tick_log = <<>>
    /\ staged_at_tick = [asteroids |-> {}, entities |-> {}]

\* main loop: player.draw, game_data.draw_all(), display
draw_all ==
    /\ pc = "draw"
    /\ seen' = seen \cup Ids(m_entities) \cup Ids(m_asteroids)
    /\ pc' = "timer"
    /\ UNCHANGED <<store, player, m_movement, shots, it_e, it_a, ticks,
                   spawner_pc, spawned, key_calls, next_id, tick_log,
                   staged_at_tick, not_game>>

\* main loop: steady_clock::now() - loop_start > tick_interval is false
timer_not_elapsed ==
    /\ pc = "timer"
    /\ pc' = "draw"
    /\ UNCHANGED <<store, player, m_movement, shots, it_e, it_a, ticks,
                   spawner_pc, spawned, key_calls, next_id, history, not_game>>

\* main loop: the interval has elapsed and the tick block starts
timer_elapsed ==
    /\ pc = "timer"
    /\ m_game_over \/ ticks < MaxTicks
    /\ pc' = "player"
    /\ ticks' = IF m_game_over THEN ticks ELSE ticks + 1
    /\ UNCHANGED <<store, player, m_movement, shots, it_e, it_a,
                   spawner_pc, spawned, key_calls, next_id, history, not_game>>

\* player::tick without its early return: the player still moves.
player_tick_over_no_return ==
    /\ pc = "player"
    /\ m_game_over
    /\ player' = player_move(player, m_movement)
    /\ pc' = "sweep"
    /\ UNCHANGED <<store, m_movement, shots, it_e, it_a, ticks,
                   spawner_pc, spawned, key_calls, next_id, history, not_game>>

\* player::tick on a game that is over: the early return
player_tick_over ==
    /\ pc = "player"
    /\ m_game_over
    /\ pc' = "sweep"
    /\ UNCHANGED <<store, player, m_movement, shots, it_e, it_a, ticks,
                   spawner_pc, spawned, key_calls, next_id, history, not_game>>

\* player::tick whose collision visitor also runs on_collision on the asteroid
\* the hull overlaps, as a projectile's does.
player_tick_running_hits(fire) ==
    /\ pc = "player"
    /\ ~m_game_over
    /\ LET movement == m_movement
           moved == player_move(player, movement)
           from == shoot_from(player, movement)
       IN /\ player' = moved
          /\ IF fire
             THEN /\ m_incoming_entities' =
                         push(m_incoming_entities, projectile(next_id, from.pos, from.rot))
                  /\ next_id' = next_id + 1
                  /\ shots' = shots + 1
             ELSE UNCHANGED <<m_incoming_entities, next_id, shots>>
          /\ m_game_over' =
                 \E i \in 1..Len(for_all_asteroids) :
                     player_is_collided(moved, for_all_asteroids[i])
          /\ m_asteroids' =
                 [i \in 1..Len(m_asteroids) |->
                     IF player_is_collided(moved, m_asteroids[i])
                     THEN on_collision_self(m_asteroids[i])
                     ELSE m_asteroids[i]]
    /\ seen' = seen \cup Ids(for_all_asteroids)
    /\ pc' = "sweep"
    /\ UNCHANGED <<m_entities, m_incoming_asteroids, m_game_score,
                   m_game_over_screen, m_movement, it_e, it_a, ticks,
                   spawner_pc, spawned, key_calls, tick_log, staged_at_tick,
                   not_game>>

\* player::tick on a running game.  fire: player::shoot is called and its
\* cooldown has run out.  The first shot's always has (last_shot is the
\* clock's epoch); a later one's has or has not (the clock is not modelled).
player_tick_running(fire) ==
    /\ pc = "player"
    /\ ~m_game_over
    /\ LET movement == m_movement
           moved == player_move(player, movement)
           from == shoot_from(player, movement)
       IN /\ player' = moved
          /\ IF fire
             THEN /\ m_incoming_entities' =
                         push(m_incoming_entities, projectile(next_id, from.pos, from.rot))
                  /\ next_id' = next_id + 1
                  /\ shots' = shots + 1
             ELSE UNCHANGED <<m_incoming_entities, next_id, shots>>
          /\ m_game_over' =
                 \E i \in 1..Len(for_all_asteroids) :
                     player_is_collided(moved, for_all_asteroids[i])
    /\ seen' = seen \cup Ids(for_all_asteroids)
    /\ pc' = "sweep"
    /\ UNCHANGED <<m_entities, m_asteroids, m_incoming_asteroids, m_game_score,
                   m_game_over_screen, m_movement, it_e, it_a, ticks,
                   spawner_pc, spawned, key_calls, tick_log, staged_at_tick,
                   not_game>>

player_tick ==
    \/ player_tick_over
    \/ /\ "shoot" \in m_movement
       /\ shots = 0
       /\ player_tick_running(TRUE)
    \/ /\ "shoot" \in m_movement
       /\ shots > 0
       /\ \E fire \in BOOLEAN : player_tick_running(fire)
    \/ /\ "shoot" \notin m_movement
       /\ player_tick_running(FALSE)

\* A tick block that goes from player.tick straight to data::tick.
kill_expired_skipped ==
    /\ pc = "sweep"
    /\ pc' = "tick"
    /\ UNCHANGED <<store, player, m_movement, shots, it_e, it_a, ticks,
                   spawner_pc, spawned, key_calls, next_id, history, not_game>>

\* data::kill_expired
kill_expired ==
    /\ pc = "sweep"
    /\ m_entities' = erase_expired(m_entities)
    /\ m_asteroids' = erase_expired(m_asteroids)
    /\ seen' = seen \cup Ids(m_entities) \cup Ids(m_asteroids)
    /\ pc' = "tick"
    /\ UNCHANGED <<m_incoming_entities, m_incoming_asteroids, m_game_score,
                   m_game_over, m_game_over_screen, player, m_movement, shots,
                   it_e, it_a, ticks, spawner_pc, spawned, key_calls, next_id,
                   tick_log, staged_at_tick, not_game>>


\* data::tick going from the test of the flag straight to tick_entities().
tick_skips_drain ==
    /\ pc = "tick"
    /\ staged_at_tick' = [asteroids |-> Ids(m_incoming_asteroids),
                          entities |-> Ids(m_incoming_entities)]
    /\ tick_log' = <<>>
    /\ IF m_game_over
       THEN /\ m_game_over_screen' = TRUE
            /\ pc' = "draw"
            /\ UNCHANGED it_e
       ELSE /\ pc' = "tickE"
            /\ it_e' = 1
            /\ UNCHANGED m_game_over_screen
    /\ UNCHANGED <<m_entities, m_incoming_entities, m_asteroids,
                   m_incoming_asteroids, m_game_score, m_game_over, player,
                   m_movement, shots, it_a, ticks, spawner_pc, spawned,
                   key_calls, next_id, seen, not_game>>

\* data::tick testing the flag with test_and_set() in place of test().
tick_test_and_set ==
    /\ pc = "tick"
    /\ staged_at_tick' = [asteroids |-> Ids(m_incoming_asteroids),
                          entities |-> Ids(m_incoming_entities)]
    /\ tick_log' = <<>>
    /\ m_game_over' = TRUE
    /\ IF m_game_over
       THEN /\ m_game_over_screen' = TRUE
            /\ pc' = "draw"
       ELSE /\ pc' = "drainA"
            /\ UNCHANGED m_game_over_screen
    /\ UNCHANGED <<m_entities, m_incoming_entities, m_asteroids,
                   m_incoming_asteroids, m_game_score, player,
                   m_movement, shots, it_e, it_a, ticks, spawner_pc, spawned,
                   key_calls, next_id, seen, not_game>>

\* data::tick: the test of m_game_over and, when it is set, the branch that
\* builds the game-over screen once and returns.
tick ==
    /\ pc = "tick"
    /\ staged_at_tick' = [asteroids |-> Ids(m_incoming_asteroids),
                          entities |-> Ids(m_incoming_entities)]
    /\ tick_log' = <<>>
    /\ IF m_game_over
       THEN /\ m_game_over_screen' = TRUE
            /\ pc' = "draw"
       ELSE /\ pc' = "drainA"
            /\ UNCHANGED m_game_over_screen
    /\ UNCHANGED <<m_entities, m_incoming_entities, m_asteroids,
                   m_incoming_asteroids, m_game_score, m_game_over, player,
                   m_movement, shots, it_e, it_a, ticks, spawner_pc, spawned,
                   key_calls, next_id, seen, not_game>>

\* The asteroid drain written with if in place of while: one try_pop only.
drain_asteroids_once ==
    /\ pc = "drainA"
    /\ IF m_incoming_asteroids = <<>>
       THEN UNCHANGED <<m_asteroids, m_incoming_asteroids>>
       ELSE /\ m_asteroids' = Append(m_asteroids, Head(m_incoming_asteroids))
            /\ m_incoming_asteroids' = Tail(m_incoming_asteroids)
    /\ pc' = "drainE"
    /\ UNCHANGED <<m_entities, m_incoming_entities, m_game_score, m_game_over,
                   m_game_over_screen, player, m_movement, shots, it_e, it_a,
                   ticks, spawner_pc, spawned, key_calls, next_id, history,
                   not_game>>

\* data::tick: one round of while (m_incoming_asteroids.try_pop(dummy))
drain_asteroids ==
    /\ pc = "drainA"
    /\ IF m_incoming_asteroids = <<>>
       THEN /\ pc' = "drainE"
            /\ UNCHANGED <<m_asteroids, m_incoming_asteroids>>
       ELSE /\ m_asteroids' = Append(m_asteroids, Head(m_incoming_asteroids))
            /\ m_incoming_asteroids' = Tail(m_incoming_asteroids)
            /\ pc' = "drainA"
    /\ UNCHANGED <<m_entities, m_incoming_entities, m_game_score, m_game_over,
                   m_game_over_screen, player, m_movement, shots, it_e, it_a,
                   ticks, spawner_pc, spawned, key_calls, next_id, history,
                   not_game>>

\* An entity drain that pushes a copy of the front element and pops nothing.
drain_entities_keeps_front ==
    /\ pc = "drainE"
    /\ IF m_incoming_entities = <<>>
       THEN UNCHANGED m_entities
       ELSE m_entities' = Append(m_entities, Head(m_incoming_entities))
    /\ pc' = "tickE"
    /\ it_e' = 1
    /\ UNCHANGED <<m_incoming_entities, m_asteroids, m_incoming_asteroids,
                   m_game_score, m_game_over, m_game_over_screen, player,
                   m_movement, shots, it_a, ticks, spawner_pc, spawned,
                   key_calls, next_id, history, not_game>>

\* data::tick: one round of while (m_incoming_entities.try_pop(dummy_entity));
\* when the queue is empty, tick_entities() starts on m_entities.
drain_entities ==
    /\ pc = "drainE"
    /\ IF m_incoming_entities = <<>>
       THEN /\ pc' = "tickE"
            /\ it_e' = 1
            /\ UNCHANGED <<m_entities, m_incoming_entities>>
       ELSE /\ m_entities' = Append(m_entities, Head(m_incoming_entities))
            /\ m_incoming_entities' = Tail(m_incoming_entities)
            /\ pc' = "drainE"
            /\ UNCHANGED it_e
    /\ UNCHANGED <<m_asteroids, m_incoming_asteroids, m_game_score, m_game_over,
                   m_game_over_screen, player, m_movement, shots, it_a,
                   ticks, spawner_pc, spawned, key_calls, next_id, history,
                   not_game>>

\* A projectile tick that goes on to the collision traversal after a move
\* that took it out of the window.
tick_entities_entity_no_bounds_return ==
    /\ pc = "tickE"
    /\ IF it_e > Len(m_entities)
       THEN /\ it_e' = 0 /\ it_a' = 1
            /\ pc' = "tickA"
            /\ UNCHANGED <<m_entities, tick_log, seen>>
       ELSE LET e == m_entities[it_e]
            IN /\ tick_log' = Append(tick_log, <<"entity", e.id>>)
               /\ seen' = seen \cup {e.id}
               /\ IF e.kind = "temp_text"
                  THEN /\ \E elapsed \in BOOLEAN :
                              m_entities' = [m_entities EXCEPT
                                                ![it_e] = temp_text_tick(e, elapsed)]
                       /\ it_e' = it_e + 1
                       /\ UNCHANGED <<pc, it_a>>
                  ELSE /\ m_entities' = [m_entities EXCEPT ![it_e] = projectile_move(e)]
                       /\ pc' = "coll"
                       /\ it_a' = 1
                       /\ UNCHANGED it_e
    /\ UNCHANGED <<m_incoming_entities, m_asteroids, m_incoming_asteroids,
                   m_game_score, m_game_over, m_game_over_screen, player,
                   m_movement, shots, ticks, spawner_pc, spawned, key_calls,
                   next_id, staged_at_tick, not_game>>

\* tick_entities: m_entities.for_each(ticker) hands the next entity to its
\* tick; past the last one, m_asteroids.for_each(ticker) starts.
tick_entities_entity ==
    /\ pc = "tickE"
    /\ IF it_e > Len(m_entities)
       THEN /\ it_e' = 0 /\ it_a' = 1
            /\ pc' = "tickA"
            /\ UNCHANGED <<m_entities, tick_log, seen>>
       ELSE LET e == m_entities[it_e]
            IN /\ tick_log' = Append(tick_log, <<"entity", e.id>>)
               /\ seen' = seen \cup {e.id}
               /\ IF e.kind = "temp_text"
                  THEN /\ \E elapsed \in BOOLEAN :
                              m_entities' = [m_entities EXCEPT
                                                ![it_e] = temp_text_tick(e, elapsed)]
                       /\ it_e' = it_e + 1
                       /\ UNCHANGED <<pc, it_a>>
                  ELSE /\ m_entities' = [m_entities EXCEPT ![it_e] = projectile_move(e)]
                       /\ IF shape_within_bounds(projectile_move(e).pos, entity_radius(e))
                          THEN /\ pc' = "coll"
                               /\ it_a' = 1
                               /\ UNCHANGED it_e
                          ELSE /\ it_e' = it_e + 1
                               /\ UNCHANGED <<pc, it_a>>
    /\ UNCHANGED <<m_incoming_entities, m_asteroids, m_incoming_asteroids,
                   m_game_score, m_game_over, m_game_over_screen, player,
                   m_movement, shots, ticks, spawner_pc, spawned, key_calls,
                   next_id, staged_at_tick, not_game>>

\* projectile::tick: wdw.for_all_asteroids(collision_reaction) hands the next
\* live asteroid to collision_reaction; past the last one, the tick returns.
collision_reaction ==
    /\ pc = "coll"
    /\ IF it_a > Len(for_all_asteroids)
       THEN /\ it_a' = 0
            /\ it_e' = it_e + 1
            /\ pc' = "tickE"
            /\ UNCHANGED <<m_entities, m_incoming_entities, m_asteroids,
                           m_incoming_asteroids, m_game_score, next_id, seen>>
       ELSE LET ent == for_all_asteroids[it_a]
                this == m_entities[it_e]
            IN /\ seen' = seen \cup {ent.id}
               /\ it_a' = it_a + 1
               /\ UNCHANGED <<it_e, pc>>
               /\ IF projectile_is_collided(this, ent)
                  THEN /\ \E phase \in Phases :
                              m_incoming_asteroids' =
                                  stage_children(m_incoming_asteroids, ent, phase, next_id)
                       /\ m_asteroids' = [m_asteroids EXCEPT ![it_a] = on_collision_self(ent)]
                       /\ m_game_score' = m_game_score + score_per_asteroid
                       /\ m_incoming_entities' =
                              push(m_incoming_entities,
                                   temp_text(next_id + 2, VSub(ent.pos, <<popup_offset, 0>>)))
                       /\ m_entities' = [m_entities EXCEPT ![it_e].expired = TRUE]
                       /\ next_id' = next_id + 3
                  ELSE UNCHANGED <<m_entities, m_incoming_entities, m_asteroids,
                                   m_incoming_asteroids, m_game_score, next_id>>
    /\ UNCHANGED <<m_game_over, m_game_over_screen, player, m_movement, shots,
                   ticks, spawner_pc, spawned, key_calls, tick_log,
                   staged_at_tick, not_game>>

\* The asteroid traversal stopping one element short.
tick_entities_asteroid_short ==
    /\ pc = "tickA"
    /\ IF it_a >= Len(m_asteroids)
       THEN /\ it_a' = 0
            /\ pc' = "draw"
            /\ UNCHANGED <<m_asteroids, tick_log, seen>>
       ELSE /\ m_asteroids' = [m_asteroids EXCEPT ![it_a] = asteroid_tick(m_asteroids[it_a])]
            /\ tick_log' = Append(tick_log, <<"asteroid", m_asteroids[it_a].id>>)
            /\ seen' = seen \cup {m_asteroids[it_a].id}
            /\ it_a' = it_a + 1
            /\ UNCHANGED pc
    /\ UNCHANGED <<m_entities, m_incoming_entities, m_incoming_asteroids,
                   m_game_score, m_game_over, m_game_over_screen, player,
                   m_movement, shots, it_e, ticks, spawner_pc, spawned,
                   key_calls, next_id, staged_at_tick, not_game>>

\* tick_entities: m_asteroids.for_each(ticker) hands the next asteroid to its
\* tick; past the last one, data::tick returns to the main loop.
tick_entities_asteroid ==
    /\ pc = "tickA"
    /\ IF it_a > Len(m_asteroids)
       THEN /\ it_a' = 0
            /\ pc' = "draw"
            /\ UNCHANGED <<m_asteroids, tick_log, seen>>
       ELSE /\ m_asteroids' = [m_asteroids EXCEPT ![it_a] = asteroid_tick(m_asteroids[it_a])]
            /\ tick_log' = Append(tick_log, <<"asteroid", m_asteroids[it_a].id>>)
            /\ seen' = seen \cup {m_asteroids[it_a].id}
            /\ it_a' = it_a + 1
            /\ UNCHANGED pc
    /\ UNCHANGED <<m_entities, m_incoming_entities, m_incoming_asteroids,
                   m_game_score, m_game_over, m_game_over_screen, player,
                   m_movement, shots, it_e, ticks, spawner_pc, spawned,
                   key_calls, next_id, staged_at_tick, not_game>>


\* A spawner loop whose test does not look at the game-over flag.
spawn_asteroids_test_ignores_flag ==
    /\ spawner_pc = "check"
    /\ spawned < MaxSpawn
    /\ spawner_pc' = "add"
    /\ UNCHANGED <<store, player, m_movement, shots, main_thread, spawned,
                   key_calls, next_id, history, not_game>>

\* spawn_asteroids: the loop test !tok.stop_requested() && !game_is_over()
spawn_asteroids_test ==
    /\ spawner_pc = "check"
    /\ m_game_over \/ spawned < MaxSpawn
    /\ spawner_pc' = IF m_game_over THEN "done" ELSE "add"
    /\ UNCHANGED <<store, player, m_movement, shots, main_thread, spawned,
                   key_calls, next_id, history, not_game>>

\* add_asteroid() appending to the live collection, not to the staging queue.
add_asteroid_live ==
    /\ \E draw \in spawn_draws :
           m_asteroids' =
               Append(m_asteroids,
                      asteroid(next_id, draw.pos, draw.angle, initial_asteroid_size))
    /\ next_id' = next_id + 1
    /\ UNCHANGED <<m_entities, m_incoming_asteroids>>

\* data::add_asteroid(): one asteroid of the initial size is pushed on the
\* staging queue.
add_asteroid ==
    /\ \E draw \in spawn_draws :
           m_incoming_asteroids' =
               push(m_incoming_asteroids,
                    asteroid(next_id, draw.pos, draw.angle, initial_asteroid_size))
    /\ next_id' = next_id + 1
    /\ UNCHANGED <<m_entities, m_asteroids>>

\* spawn_asteroids: the loop body's game_data.add_asteroid()
spawn_asteroids_add ==
    /\ spawner_pc = "add"
    /\ add_asteroid
    /\ spawned' = spawned + 1
    /\ spawner_pc' = "check"
    /\ UNCHANGED <<m_incoming_entities, m_game_score,
                   m_game_over, m_game_over_screen, player, m_movement, shots,
                   main_thread, key_calls, history, not_game>>

\* player::set and player::clear, called by the input thread
set(in) ==
    /\ key_calls < MaxKeyCalls
    /\ m_movement' = m_movement \cup {in}
    /\ key_calls' = key_calls + 1
    /\ UNCHANGED <<store, player, shots, main_thread, spawner_pc, spawned,
                   next_id, history, not_game>>
clear(in) ==
    /\ key_calls < MaxKeyCalls
    /\ m_movement' = m_movement \ {in}
    /\ key_calls' = key_calls + 1
    /\ UNCHANGED <<store, player, shots, main_thread, spawner_pc, spawned,
                   next_id, history, not_game>>

forward_down == set("forward")
forward_up == clear("forward")
backward_down == set("backward")
backward_up == clear("backward")
left_down == set("left")
left_up == clear("left")
right_down == set("right")
right_up == clear("right")
shoot_down == set("shoot")
shoot_up == clear("shoot")

MainLoop ==
    \/ draw_all \/ timer_not_elapsed \/ timer_elapsed
    \/ player_tick \/ kill_expired
    \/ tick \/ drain_asteroids \/ drain_entities
    \/ tick_entities_entity \/ collision_reaction \/ tick_entities_asteroid
Spawner == spawn_asteroids_test \/ spawn_asteroids_add
Input ==
    \/ forward_down \/ forward_up \/ backward_down \/ backward_up
    \/ left_down \/ left_up \/ right_down \/ right_up
    \/ shoot_down \/ shoot_up

\* No queue is under test.
NoQueue ==
    /\ m_dat = <<>> /\ m_mut = "free" /\ m_cond = FALSE
    /\ q_pc = <<>> /\ q_pushed = <<>> /\ q_log = <<>>

Init ==
    /\ InitGame
    /\ NoQueue
    /\ adds = <<>>
    /\ NoTests

Next == MainLoop \/ Spawner \/ Input

Spec == Init /\ [][Next]_vars


(***************************************************************************)
(* thread_safe::queue under several producers and one consumer.            *)
(***************************************************************************)
\* Values each producer pushes.
MaxPush == 2
Producers == {"p1", "p2"}
Consumer == "c"

InitQ ==
    /\ m_dat = <<>> /\ m_mut = "free" /\ m_cond = FALSE
    /\ q_pc = [t \in Producers \cup {Consumer} |-> "idle"]
    /\ q_pushed = [t \in Producers |-> 0]
    /\ q_log = <<>>

\* The game is not running.
NoGame ==
    /\ m_entities = <<>> /\ m_incoming_entities = <<>>
    /\ m_asteroids = <<>> /\ m_incoming_asteroids = <<>>
    /\ m_game_score = 0 /\ m_game_over = FALSE /\ m_game_over_screen = FALSE
    /\ player = [pos |-> <<0, 0>>, vel |-> <<0, 0>>, accel |-> <<0, 0>>, rot |-> 0]
    /\ m_movement = {} /\ shots = 0
    /\ pc = "off" /\ it_e = 0 /\ it_a = 0 /\ ticks = 0
    /\ spawner_pc = "off" /\ spawned = 0 /\ key_calls = 0 /\ next_id = 1
    /\ seen = {} /\ tick_log = <<>>
    /\ staged_at_tick = [asteroids |-> {}, entities |-> {}]

not_queue == <<game_vars, adds, tests>>

\* push: std::lock_guard{m_mut}
queue_push_lock(t) ==
    /\ q_pc[t] = "idle"
    /\ q_pushed[t] < MaxPush
    /\ m_mut = "free"
    /\ m_mut' = t
    /\ q_pc' = [q_pc EXCEPT ![t] = "push"]
    /\ UNCHANGED <<m_dat, m_cond, q_pushed, q_log, not_queue>>

\* push: m_dat.push, m_cond.notify_one, and the guard's release.  The value
\* is <<producer, sequence number>>.
queue_push(t) ==
    /\ q_pc[t] = "push"
    /\ m_dat' = Append(m_dat, <<t, q_pushed[t] + 1>>)
    /\ q_pushed' = [q_pushed EXCEPT ![t] = @ + 1]
    /\ m_cond' = FALSE
    /\ q_pc' = [q_pc EXCEPT ![t] = "idle",
                            ![Consumer] = IF m_cond THEN "woken" ELSE @]
    /\ m_mut' = "free"
    /\ UNCHANGED <<q_log, not_queue>>

\* try_pop: std::lock_guard{m_mut}
queue_try_pop_lock ==
    /\ q_pc[Consumer] = "idle"
    /\ m_mut = "free"
    /\ m_mut' = Consumer
    /\ q_pc' = [q_pc EXCEPT ![Consumer] = "try_pop"]
    /\ UNCHANGED <<m_dat, m_cond, q_pushed, q_log, not_queue>>

\* try_pop that copies the front and forgets m_dat.pop().
queue_try_pop_no_pop ==
    /\ q_pc[Consumer] = "try_pop"
    /\ IF m_dat = <<>>
       THEN UNCHANGED q_log
       ELSE q_log' = Append(q_log, Head(m_dat))
    /\ m_mut' = "free"
    /\ q_pc' = [q_pc EXCEPT ![Consumer] = "idle"]
    /\ UNCHANGED <<m_dat, m_cond, q_pushed, not_queue>>

\* try_pop: the body and the guard's release
queue_try_pop ==
    /\ q_pc[Consumer] = "try_pop"
    /\ IF m_dat = <<>>
       THEN UNCHANGED <<m_dat, q_log>>
       ELSE /\ q_log' = Append(q_log, Head(m_dat))
            /\ m_dat' = Tail(m_dat)
    /\ m_mut' = "free"
    /\ q_pc' = [q_pc EXCEPT ![Consumer] = "idle"]
    /\ UNCHANGED <<m_cond, q_pushed, not_queue>>

\* wait_pop: std::unique_lock{m_mut}, also on the way out of m_cond.wait
queue_wait_pop_lock ==
    /\ q_pc[Consumer] \in {"idle", "woken"}
    /\ m_mut = "free"
    /\ m_mut' = Consumer
    /\ q_pc' = [q_pc EXCEPT ![Consumer] = "wait_pop"]
    /\ UNCHANGED <<m_dat, m_cond, q_pushed, q_log, not_queue>>

\* wait_pop: m_cond.wait tests the predicate with the lock held and blocks if
\* the queue is empty; otherwise the front is moved out and popped.
queue_wait_pop ==
    /\ q_pc[Consumer] = "wait_pop"
    /\ IF m_dat = <<>>
       THEN /\ m_cond' = TRUE
            /\ q_pc' = [q_pc EXCEPT ![Consumer] = "blocked"]
            /\ UNCHANGED <<m_dat, q_log>>
       ELSE /\ q_log' = Append(q_log, Head(m_dat))
            /\ m_dat' = Tail(m_dat)
            /\ q_pc' = [q_pc EXCEPT ![Consumer] = "idle"]
            /\ UNCHANGED m_cond
    /\ m_mut' = "free"
    /\ UNCHANGED <<q_pushed, not_queue>>

\* std::condition_variable::wait may wake with no notification.
queue_spurious_wake ==
    /\ q_pc[Consumer] = "blocked"
    /\ m_cond' = FALSE
    /\ q_pc' = [q_pc EXCEPT ![Consumer] = "woken"]
    /\ UNCHANGED <<m_dat, m_mut, q_pushed, q_log, not_queue>>

NextQ ==
    \/ \E t \in Producers : queue_push_lock(t) \/ queue_push(t)
    \/ queue_try_pop_lock \/ queue_try_pop
    \/ queue_wait_pop_lock \/ queue_wait_pop
    \/ queue_spurious_wake

InitQueue ==
    /\ InitQ
    /\ NoGame
    /\ adds = <<>>
    /\ NoTests

SpecQ == InitQueue /\ [][NextQ]_vars


\* How often value v occurs in sequence seq.
Occurrences(seq, v) == Cardinality({i \in 1..Len(seq) : seq[i] = v})

\* C1: under every interleaving of pushes by several producers with try_pop
\* and wait_pop calls by one consumer, each value pushed so far is either
\* still in the queue or was returned by exactly one pop, never both and never
\* twice, nothing else is ever returned, and the values of one producer are
\* returned in the order that producer pushed them.
C1_ExactlyOnceInOrder ==
    /\ \A t \in Producers : \A k \in 1..MaxPush :
           Occurrences(q_log \o m_dat, <<t, k>>) = IF k <= q_pushed[t] THEN 1 ELSE 0
    /\ \A i, j \in 1..Len(q_log) :
           (i < j /\ q_log[i][1] = q_log[j][1]) => q_log[i][2] < q_log[j][2]

\* Every value of both producers has been returned, the producers' values
\* interleaved, and the consumer's next wait_pop has blocked on the empty queue.
C1_Witness ==
    /\ Len(q_log) = MaxPush * Cardinality(Producers)
    /\ q_log[1][1] # q_log[2][1]
    /\ q_pc[Consumer] = "blocked"


(***************************************************************************)
(* A game::data under test: producer threads stage asteroids with          *)
(* add_asteroid() while no tick runs, then data::tick() is called once.    *)
(***************************************************************************)
\* add_asteroid() calls each producer thread makes.
MaxAdds == 2
StoreProducers == {"s1", "s2"}

InitStore ==
    /\ InitGame
    /\ NoQueue
    /\ adds = [t \in StoreProducers |-> 0]
    /\ NoTests

\* The threads of main() do not run: only the test's producers and its one
\* call of data::tick do.
store_add_asteroid(t) ==
    /\ pc = "draw"
    /\ spawner_pc = "check"
    /\ adds[t] < MaxAdds
    /\ add_asteroid
    /\ adds' = [adds EXCEPT ![t] = @ + 1]
    /\ UNCHANGED <<m_incoming_entities, m_game_score, m_game_over,
                   m_game_over_screen, player, m_movement, shots, main_thread,
                   spawner_pc, spawned, key_calls, history, queue_vars, tests>>

\* The producers have been joined and the test calls data::tick().
store_tick ==
    /\ pc = "draw"
    /\ spawner_pc = "check"
    /\ pc' = "tick"
    /\ spawner_pc' = "joined"
    /\ UNCHANGED <<store, player, m_movement, shots, it_e, it_a, ticks,
                   spawned, key_calls, next_id, history, not_game>>

NextStore ==
    \/ \E t \in StoreProducers : store_add_asteroid(t)
    \/ store_tick
    \/ tick \/ drain_asteroids \/ drain_entities
    \/ tick_entities_entity \/ tick_entities_asteroid

SpecStore == InitStore /\ [][NextStore]_vars


RECURSIVE SumOver(_, _)
SumOver(f, S) ==
    IF S = {} THEN 0
    ELSE LET t == CHOOSE x \in S : TRUE IN f[t] + SumOver(f, S \ {t})

\* C2: when producer threads have staged N asteroids with concurrent
\* add_asteroid() calls and one data::tick() then runs on the running game,
\* from the end of its asteroid drain on the live asteroid collection holds
\* exactly those N asteroids, each once, and the staging queue is empty.
C2_DrainDeliversAll ==
    (spawner_pc = "joined" /\ pc \in {"drainE", "tickE", "tickA", "draw"}) =>
        /\ m_incoming_asteroids = <<>>
        /\ Len(m_asteroids) = SumOver(adds, StoreProducers)
        /\ Ids(m_asteroids) = 1..SumOver(adds, StoreProducers)
        /\ \A i \in 1..Len(m_asteroids) : m_asteroids[i].size = initial_asteroid_size

\* Each producer made all its calls before the tick, and the tick has returned.
C2_Witness ==
    /\ spawner_pc = "joined" /\ pc = "draw"
    /\ \A t \in StoreProducers : adds[t] = MaxAdds
    /\ Len(m_asteroids) = MaxAdds * Cardinality(StoreProducers)


(***************************************************************************)
(* asteroid::on_collision under test: one asteroid of any tier, built by   *)
(* the public constructor and made live, is collided once.                 *)
(***************************************************************************)
TestPositions == {<<0, 2500>>, <<2500, 2500>>, <<1230, 4070>>}
TestAngles == {0, 45, 90, 180, -90, -135}

InitAsteroid ==
    /\ InitGame
    /\ NoQueue
    /\ adds = <<>>
    /\ NoTests

\* The test constructs the asteroid and stages it with add_asteroid(asteroid&&).
asteroid_test_add ==
    /\ pc = "draw" /\ spawner_pc = "check"
    /\ next_id = 1
    /\ \E pos \in TestPositions, angle \in TestAngles, size \in 1..initial_asteroid_size :
           m_incoming_asteroids' = push(m_incoming_asteroids, asteroid(next_id, pos, angle, size))
    /\ next_id' = next_id + 1
    /\ UNCHANGED <<m_entities, m_incoming_entities, m_asteroids, m_game_score,
                   m_game_over, m_game_over_screen, player, m_movement, shots,
                   main_thread, spawner_pc, spawned, key_calls, history, not_game>>

\* The test calls data::tick() once, then on_collision on the live asteroid.
asteroid_test_tick ==
    /\ pc = "draw" /\ spawner_pc = "check"
    /\ next_id = 2
    /\ pc' = "tick"
    /\ spawner_pc' = "collide"
    /\ UNCHANGED <<store, player, m_movement, shots, it_e, it_a, ticks,
                   spawned, key_calls, next_id, history, not_game>>

\* asteroid::on_collision(dat) on the live asteroid
on_collision ==
    /\ pc = "draw" /\ spawner_pc = "collide"
    /\ \E phase \in Phases :
           m_incoming_asteroids' =
               stage_children(m_incoming_asteroids, m_asteroids[1], phase, next_id)
    /\ m_asteroids' = [m_asteroids EXCEPT ![1] = on_collision_self(m_asteroids[1])]
    /\ next_id' = next_id + 2
    /\ spawner_pc' = "collided"
    /\ UNCHANGED <<m_entities, m_incoming_entities, m_game_score, m_game_over,
                   m_game_over_screen, player, m_movement, shots, main_thread,
                   spawned, key_calls, history, not_game>>

NextAsteroid ==
    \/ asteroid_test_add \/ asteroid_test_tick
    \/ tick \/ drain_asteroids \/ drain_entities
    \/ tick_entities_entity \/ tick_entities_asteroid
    \/ on_collision

SpecAsteroid == InitAsteroid /\ [][NextAsteroid]_vars

\* C9: on_collision on an asteroid of tier t > 1 stages exactly two
\* asteroids, both of tier t - 1 and at the parent's position, whose speeds
\* are equal, whose phase angles differ by exactly 180 degrees and whose
\* velocities are opposite, and marks the parent expired; on an asteroid of
\* tier 1 it stages nothing and marks it expired.
C9_SplitOrTerminate ==
    spawner_pc = "collided" =>
        LET parent == m_asteroids[1]
            q == m_incoming_asteroids
        IN /\ parent.expired
           /\ IF parent.size = 1
              THEN q = <<>>
              ELSE /\ Len(q) = 2
                   /\ \A i \in 1..2 : /\ q[i].size = parent.size - 1
                                      /\ q[i].pos = parent.pos
                                      /\ ~q[i].expired
                   /\ LengthSquared(q[1].vel) = LengthSquared(q[2].vel)
                   /\ q[1].angle - q[2].angle = 180
                   /\ q[1].vel = <<-q[2].vel[1], -q[2].vel[2]>>
                   /\ LengthSquared(q[1].vel) > 0

\* A tier-3 asteroid off the axes has been split at an oblique phase.
C9_Witness ==
    /\ spawner_pc = "collided"
    /\ m_asteroids[1].size = 3
    /\ m_asteroids[1].pos[1] # m_asteroids[1].pos[2]
    /\ Len(m_incoming_asteroids) = 2
    /\ m_incoming_asteroids[1].angle = 45


(***************************************************************************)
(* Properties of the game.                                                 *)
(***************************************************************************)
\* How many elements of seq carry the id.
IdCount(seq, id) == Cardinality({i \in 1..Len(seq) : seq[i].id = id})
\* The ids of seq, in order.
IdSeq(seq) == [i \in 1..Len(seq) |-> seq[i].id]
\* data::tick is past its asteroid drain and has not returned.
PastAsteroidDrain == pc \in {"drainE", "tickE", "coll", "tickA"}

\* C3: an asteroid staged by add_asteroid is not in the live collection and
\* has been handed to no draw, sweep, tick or collision visitor, and
\* num_entities() counts the live elements only; once a data::tick() has
\* drained, every asteroid that was staged when it was called is in the live
\* collection exactly once.
C3_StagedInvisibleUntilDrain ==
    /\ Ids(m_incoming_asteroids) \cap (seen \cup Ids(m_asteroids)) = {}
    /\ num_entities = Cardinality(Ids(m_entities) \cup Ids(m_asteroids))
    /\ PastAsteroidDrain =>
           \A id \in staged_at_tick.asteroids : IdCount(m_asteroids, id) = 1

\* The second tick has drained asteroids that sat in the staging queue while
\* a draw, a player collision pass and a sweep ran over the live ones.
C3_Witness ==
    /\ pc = "drainE" /\ ticks = 2
    /\ staged_at_tick.asteroids # {}
    /\ seen # {}
    /\ staged_at_tick.asteroids \cap seen = {}
    /\ staged_at_tick.asteroids \subseteq Ids(m_asteroids)

\* C4: the membership of a live collection changes only by an append in
\* data::tick's drain of its staging queue and by kill_expired's removal of
\* the expired, both while no for_each traversal is in progress; a step that
\* stages something (from another thread or from a tick callback inside a
\* traversal) leaves both live collections' membership as it was.
C4_LiveChangesOnlyInDrainAndSweep ==
    [][/\ IdSeq(m_asteroids') # IdSeq(m_asteroids) =>
              /\ it_e = 0 /\ it_a = 0
              /\ \/ /\ pc = "drainA" /\ m_incoming_asteroids # <<>>
                    /\ m_asteroids' = Append(m_asteroids, Head(m_incoming_asteroids))
                 \/ /\ pc = "sweep"
                    /\ m_asteroids' = erase_expired(m_asteroids)
       /\ IdSeq(m_entities') # IdSeq(m_entities) =>
              /\ it_e = 0 /\ it_a = 0
              /\ \/ /\ pc = "drainE" /\ m_incoming_entities # <<>>
                    /\ m_entities' = Append(m_entities, Head(m_incoming_entities))
                 \/ /\ pc = "sweep"
                    /\ m_entities' = erase_expired(m_entities)
       /\ (\/ Len(m_incoming_asteroids') > Len(m_incoming_asteroids)
           \/ Len(m_incoming_entities') > Len(m_incoming_entities)) =>
              /\ IdSeq(m_asteroids') = IdSeq(m_asteroids)
              /\ IdSeq(m_entities') = IdSeq(m_entities)
      ]_vars

\* A collision has staged two asteroids and a popup from inside the nested
\* traversals of both live collections.
C4_Witness ==
    /\ pc = "coll" /\ it_e > 0 /\ it_a > 1
    /\ Len(m_incoming_asteroids) >= 2
    /\ m_incoming_entities # <<>>


\* The last data::tick() call has returned and no sweep has run since.
TickReturned ==
    \/ ticks >= 1 /\ pc \in {"draw", "timer"}
    \/ ticks >= 2 /\ pc \in {"player", "sweep"}

\* C5 as stated: whatever was staged when a data::tick() call was made is
\* live when the call returns, also when the game was over at the call.
C5_AsStated ==
    TickReturned =>
        /\ staged_at_tick.asteroids \subseteq Ids(m_asteroids)
        /\ staged_at_tick.entities \subseteq Ids(m_entities)

\* C5, amended: a data::tick() call made while the game-over flag is clear
\* drains both staging queues, so that whatever was staged at the call is live
\* at its return; a call made while the flag is set tests the flag first and
\* drains nothing, so that whatever was staged at the call is still staged and
\* not live at its return.  (The game-over screen exists exactly when the
\* last call was made with the flag set.)
C5_DrainsOnlyWhileRunning ==
    TickReturned =>
        IF m_game_over_screen
        THEN /\ staged_at_tick.asteroids \subseteq Ids(m_incoming_asteroids)
             /\ staged_at_tick.entities \subseteq Ids(m_incoming_entities)
             /\ staged_at_tick.asteroids \cap Ids(m_asteroids) = {}
             /\ staged_at_tick.entities \cap Ids(m_entities) = {}
        ELSE /\ staged_at_tick.asteroids \subseteq Ids(m_asteroids)
             /\ staged_at_tick.entities \subseteq Ids(m_entities)

\* A data::tick() call made with the flag set has returned and has left two
\* asteroids and a popup in the staging queues.
C5_Witness ==
    /\ pc = "draw" /\ m_game_over_screen
    /\ Cardinality(staged_at_tick.asteroids) >= 2
    /\ staged_at_tick.entities # {}

\* The player's hull overlaps a live asteroid (player::is_collided).
Overlap(p) == \E i \in 1..Len(m_asteroids) : player_is_collided(p, m_asteroids[i])

\* C6: the game starts Running; the flag is set by a player tick on a running
\* game that finds the hull overlapping a live asteroid, by every such tick and
\* by nothing else; and once game_is_over() is true no step of any thread
\* makes it false again.
C6_GameOverSetOnceAtOverlap ==
    /\ ~m_game_over
    /\ [][/\ m_game_over => m_game_over'
          /\ (~m_game_over /\ m_game_over') => (pc = "player" /\ Overlap(player'))
          /\ (~m_game_over /\ pc = "player" /\ pc' = "sweep" /\ Overlap(player'))
                 => m_game_over'
         ]_vars

\* The game is over, the spawner has seen it and left its loop, and a later
\* tick block has run its player tick.
C6_Witness ==
    /\ m_game_over /\ spawner_pc = "done"
    /\ m_game_over_screen /\ pc = "sweep"


\* data::tick is in its running branch: draining or inside tick_entities().
Simulating == pc \in {"drainA", "drainE", "tickE", "coll", "tickA"}

\* C7: while the game-over flag is set the main thread is never inside
\* data::tick's running branch, and a player::tick or data::tick call made
\* with the flag set leaves the live collections (every element's position
\* and expiration flag), the player's position and velocity, the score and
\* both staging queues as they were; the data::tick call ticks no entity.
C7_GameOverTickSkipsSimulation ==
    /\ [](m_game_over => ~Simulating)
    /\ [][(m_game_over /\ pc \in {"player", "tick"} /\ pc' # pc) =>
              /\ m_entities' = m_entities
              /\ m_asteroids' = m_asteroids
              /\ player'.pos = player.pos
              /\ player'.vel = player.vel
              /\ m_game_score' = m_game_score
              /\ m_incoming_entities' = m_incoming_entities
              /\ m_incoming_asteroids' = m_incoming_asteroids
              /\ pc = "tick" => (tick_log' = <<>> /\ pc' = "draw")
         ]_vars

\* A data::tick call and then a player tick have run on a game that is over,
\* with a live asteroid in the store and a key held down.
C7_Witness ==
    /\ m_game_over_screen /\ pc = "tick"
    /\ m_asteroids # <<>>
    /\ m_movement # {}

\* The kinds ticked by the last data::tick(), in order.
LogKinds == [i \in 1..Len(tick_log) |-> tick_log[i][1]]
\* The ids ticked by the last data::tick(), in order.
LogIds == [i \in 1..Len(tick_log) |-> tick_log[i][2]]

\* C8 as stated: in a data::tick() call on a running game no general entity
\* is ticked before an asteroid, and when the call has returned every live
\* element was ticked exactly once.
C8_AsStated ==
    /\ \A i, j \in 1..Len(tick_log) :
           i < j => ~(LogKinds[i] = "entity" /\ LogKinds[j] = "asteroid")
    /\ (TickReturned /\ ~m_game_over_screen) =>
           \A id \in Ids(m_entities) \cup Ids(m_asteroids) :
               Cardinality({i \in 1..Len(tick_log) : LogIds[i] = id}) = 1

\* C8, amended: in a data::tick() call on a running game tick is invoked on
\* every live general entity first and only afterwards on every live
\* asteroid: no asteroid is ticked before a general entity, and when the call
\* has returned the elements ticked are the live general entities in their
\* order followed by the live asteroids in theirs, each exactly once.
C8_EntitiesThenAsteroidsOnce ==
    /\ \A i, j \in 1..Len(tick_log) :
           i < j => ~(LogKinds[i] = "asteroid" /\ LogKinds[j] = "entity")
    /\ (TickReturned /\ ~m_game_over_screen) =>
           LogIds = IdSeq(m_entities) \o IdSeq(m_asteroids)

\* A data::tick() call has returned that ticked a projectile and then the
\* asteroid it hit.
C8_Witness ==
    /\ pc = "draw" /\ ~m_game_over_screen
    /\ Len(tick_log) >= 2
    /\ LogKinds[1] = "entity"
    /\ LogKinds[Len(tick_log)] = "asteroid"

\* C10: when collision_reaction, called by an in-bounds projectile's tick,
\* finds the projectile's front point inside a live asteroid, that call runs
\* the asteroid's on_collision (the asteroid is marked expired and, unless it
\* is of tier 1, two asteroids one tier down are staged), adds
\* score_per_asteroid to the score, pushes one popup on the entity staging
\* queue and sets the projectile's expiration flag; until the projectile's
\* tick ends neither flag is cleared and the score does not shrink.
C10_HitScoresPopsAndExpires ==
    [][/\ (/\ pc = "coll" /\ it_a' = it_a + 1
           /\ projectile_is_collided(m_entities[it_e], m_asteroids[it_a])) =>
              /\ m_asteroids'[it_a].expired
              /\ Len(m_incoming_asteroids') = Len(m_incoming_asteroids)
                     + (IF m_asteroids[it_a].size = 1 THEN 0 ELSE 2)
              /\ \A k \in Len(m_incoming_asteroids) + 1 .. Len(m_incoming_asteroids') :
                     /\ m_incoming_asteroids'[k].size = m_asteroids[it_a].size - 1
                     /\ m_incoming_asteroids'[k].pos = m_asteroids[it_a].pos
              /\ m_game_score' = m_game_score + 100
              /\ Len(m_incoming_entities') = Len(m_incoming_entities) + 1
              /\ m_incoming_entities'[Len(m_incoming_entities')].kind = "temp_text"
              /\ m_entities'[it_e].expired
       /\ (pc = "coll" /\ pc' \in {"coll", "tickE"}) =>
              /\ m_entities[it_e].expired => m_entities'[it_e].expired
              /\ \A i \in 1..Len(m_asteroids) :
                     m_asteroids[i].expired => m_asteroids'[i].expired
              /\ m_game_score' >= m_game_score
      ]_vars

\* A projectile's tick has ended after a hit on a tier-3 asteroid.
C10_Witness ==
    /\ pc = "tickE" /\ it_e = 2
    /\ m_entities[1].kind = "projectile" /\ m_entities[1].expired
    /\ m_game_score = 100
    /\ m_asteroids[1].expired /\ m_asteroids[1].size = 3
    /\ Len(m_incoming_asteroids) = 2
    /\ Len(m_incoming_entities) = 1

\* C11: the player tick that finds the hull overlapping a live asteroid sets
\* the game-over flag and leaves every asteroid as it was: the live asteroid
\* collection (membership, order, every element's expiration flag, tier and
\* position), the asteroid staging queue and the score are unchanged by it.
C11_OverlapLeavesAsteroid ==
    [][(~m_game_over /\ pc = "player" /\ pc' = "sweep" /\ Overlap(player')) =>
           /\ m_game_over'
           /\ m_asteroids' = m_asteroids
           /\ m_incoming_asteroids' = m_incoming_asteroids
           /\ m_game_score' = m_game_score
      ]_vars

\* The player tick has just set the flag over an asteroid that is still live,
\* whole and not expired.
C11_Witness ==
    /\ m_game_over /\ ~m_game_over_screen /\ pc = "sweep"
    /\ \E i \in 1..Len(m_asteroids) :
           /\ player_is_collided(player, m_asteroids[i])
           /\ ~m_asteroids[i].expired
           /\ m_asteroids[i].size = initial_asteroid_size

(***************************************************************************)
(* The expiration flag of each entity kind under test: two entities of one *)
(* kind, built by the public constructors, are ticked, collided and        *)
(* copy-assigned to one another.                                           *)
(***************************************************************************)
\* Operations the test applies.
MaxEntOps == 3
EntityKinds == {"projectile", "asteroid", "text", "temp_text", "dot"}
\* One entity starts a tick away from the left edge, the other mid-window.
EntityPositions == <<(<<20, 2500>>), (<<2500, 2500>>)>>

\* text{vel, string} with the popup's velocity and character size, at position.
text(id, position) == [temp_text(id, position) EXCEPT !.kind = "text"]

\* dot{position}: velocity {0,0}.
dot(id, position) ==
    [id |-> id, kind |-> "dot", pos |-> position, vel |-> <<0, 0>>, expired |-> FALSE]

\* The entity of a kind the test builds at a position.
make_entity(kind, id, position) ==
    CASE kind = "projectile" -> projectile(id, position, 0)
      [] kind = "asteroid" ->
             [kind |-> "asteroid"] @@ asteroid(id, position, 180, initial_asteroid_size)
      [] kind = "text" -> text(id, position)
      [] kind = "temp_text" -> temp_text(id, position)
      [] kind = "dot" -> dot(id, position)

\* text::tick
text_tick(e) ==
    LET moved == VAdd(e.pos, TimesTickRate(e.vel))
    IN [e EXCEPT !.pos = moved,
                 !.expired = e.expired \/ ~shape_within_bounds(moved, entity_radius(e))]

\* dot::tick; elapsed: now() > m_start + m_lifetime (the constructor leaves
\* m_lifetime uninitialised, so either answer is possible).
dot_tick(e, elapsed) == [e EXCEPT !.expired = e.expired \/ elapsed]

\* player::is_expired
player_is_expired(p) == FALSE

\* A copy-assignment that takes over the source's flag as it is.
projectile_assign_flag(dst, src) ==
    [dst EXCEPT !.pos = src.pos, !.expired = src.expired]

\* projectile::operator=(const projectile&): the shape is copied (m_vel is
\* not), and the flag is set if the source's is.
projectile_assign(dst, src) ==
    [dst EXCEPT !.pos = src.pos, !.expired = dst.expired \/ src.expired]

\* text::operator=(const text&), also temp_text's implicit one: m_text is
\* rebuilt from the font and the string, which puts it at {0,0}; the flag is
\* set if the source's is.
text_assign(dst, src) ==
    [dst EXCEPT !.pos = <<0, 0>>, !.expired = dst.expired \/ src.expired]

\* dot::operator=(const dot&)
dot_assign(dst, src) ==
    [dst EXCEPT !.pos = src.pos, !.vel = src.vel,
                !.expired = dst.expired \/ src.expired]

\* What flowing off the end of text::operator= and dot::operator=, which have
\* no return statement, can do: return to the caller, or trap.
AssignOutcomes(kind) ==
    IF kind = "projectile" THEN {"run"} ELSE {"run", "trapped"}

InitEntity ==
    /\ InitGame
    /\ NoQueue
    /\ adds = <<>>
    /\ ents = <<>> /\ ent_pc = "make" /\ ent_ops = 0
    /\ NoVec /\ NoCq /\ NoInput /\ NoPoly /\ NoAux

not_ents ==
    <<game_vars, queue_vars, adds, vec_vars, cq_vars, input_vars, poly_vars,
      aux_vars>>

\* The test constructs two entities of one kind.
entity_test_make ==
    /\ ent_pc = "make"
    /\ \E kind \in EntityKinds :
           ents' = [i \in 1..2 |-> make_entity(kind, i, EntityPositions[i])]
    /\ ent_pc' = "run"
    /\ UNCHANGED <<ent_ops, not_ents>>

\* ents[i].tick(dat), up to the projectile's collision pass
entity_test_tick(i) ==
    /\ ent_pc = "run" /\ ent_ops < MaxEntOps
    /\ LET e == ents[i]
       IN \E elapsed \in BOOLEAN :
              ents' = [ents EXCEPT ![i] =
                          CASE e.kind = "projectile" -> projectile_move(e)
                            [] e.kind = "asteroid" -> asteroid_tick(e)
                            [] e.kind = "text" -> text_tick(e)
                            [] e.kind = "temp_text" -> temp_text_tick(e, elapsed)
                            [] e.kind = "dot" -> dot_tick(e, elapsed)]
    /\ ent_ops' = ent_ops + 1
    /\ UNCHANGED <<ent_pc, not_ents>>

\* A collision: asteroid::on_collision on an asteroid, the projectile's own
\* m_expired.test_and_set() in collision_reaction on a projectile.
entity_test_hit(i) ==
    /\ ent_pc = "run" /\ ent_ops < MaxEntOps
    /\ ents[i].kind \in {"projectile", "asteroid"}
    /\ ents' = [ents EXCEPT ![i] = on_collision_self(ents[i])]
    /\ ent_ops' = ent_ops + 1
    /\ UNCHANGED <<ent_pc, not_ents>>

\* ents[i] = ents[j].  asteroid's defaulted copy assignment is deleted (its
\* members are atomics), so there is none to call.
entity_test_assign(i, j) ==
    /\ ent_pc = "run" /\ ent_ops < MaxEntOps
    /\ i # j
    /\ ents[i].kind # "asteroid"
    /\ LET dst == ents[i]
           src == ents[j]
       IN /\ ents' = [ents EXCEPT ![i] =
                         CASE dst.kind = "projectile" -> projectile_assign(dst, src)
                           [] dst.kind \in {"text", "temp_text"} -> text_assign(dst, src)
                           [] dst.kind = "dot" -> dot_assign(dst, src)]
          /\ ent_pc' \in AssignOutcomes(dst.kind)
    /\ ent_ops' = ent_ops + 1
    /\ UNCHANGED not_ents

NextEntity ==
    \/ entity_test_make
    \/ \E i \in 1..2 : entity_test_tick(i) \/ entity_test_hit(i)
    \/ \E i, j \in 1..2 : entity_test_assign(i, j)

SpecEntity == InitEntity /\ [][NextEntity]_vars

\* C12: once an entity's is_expired() is true it is true in every later
\* state, whatever is done to the entity: a tick, a collision, a
\* copy-assignment into it from an entity that has not expired; and the
\* player's is_expired() is false.
C12_ExpiredStaysExpired ==
    /\ [][\A i \in 1..Len(ents) : ents[i].expired => ents'[i].expired]_vars
    /\ [](~player_is_expired(player))

\* An expired projectile has been assigned from one that has not expired: it
\* has the source's position and is still expired.
C12_Witness ==
    /\ ent_pc = "run" /\ Len(ents) = 2
    /\ ents[1].kind = "projectile"
    /\ ents[1].expired /\ ~ents[2].expired
    /\ ents[1].pos = ents[2].pos

(***************************************************************************)
(* Chains of splits: an asteroid staged by add_asteroid() is made live by  *)
(* data::tick(), and the test calls on_collision on live asteroids, swept  *)
(* or not, and add_projectile between the tick blocks.                     *)
(***************************************************************************)
\* Tick blocks the test runs.
MaxSplitTicks == 3

InitSplit ==
    /\ InitGame
    /\ NoQueue
    /\ adds = <<>>
    /\ NoTests

\* asteroid::on_collision(dat) on the i-th live asteroid
split_test_hit(i) ==
    /\ pc = "draw"
    /\ ent_ops < MaxEntOps
    /\ \E phase \in Phases :
           m_incoming_asteroids' =
               stage_children(m_incoming_asteroids, m_asteroids[i], phase, next_id)
    /\ m_asteroids' = [m_asteroids EXCEPT ![i] = on_collision_self(m_asteroids[i])]
    /\ next_id' = next_id + 2
    /\ ent_ops' = ent_ops + 1
    /\ UNCHANGED <<m_entities, m_incoming_entities, m_game_score, m_game_over,
                   m_game_over_screen, player, m_movement, shots, main_thread,
                   spawner_pc, spawned, key_calls, history, queue_vars, adds,
                   ents, ent_pc, vec_vars, cq_vars, input_vars, poly_vars,
                   aux_vars>>

\* data::add_projectile(position, rotation), the rotation being 0
split_test_shoot ==
    /\ pc = "draw"
    /\ ent_ops < MaxEntOps
    /\ \E k \in DOMAIN EntityPositions :
           m_incoming_entities' =
               push(m_incoming_entities, projectile(next_id, EntityPositions[k], 0))
    /\ next_id' = next_id + 1
    /\ ent_ops' = ent_ops + 1
    /\ UNCHANGED <<m_entities, m_asteroids, m_incoming_asteroids, m_game_score,
                   m_game_over, m_game_over_screen, player, m_movement, shots,
                   main_thread, spawner_pc, spawned, key_calls, history,
                   queue_vars, adds, ents, ent_pc, vec_vars, cq_vars,
                   input_vars, poly_vars, aux_vars>>

\* The test stages the one asteroid it splits: data::add_asteroid(), before
\* the first tick block.
split_test_add ==
    /\ pc = "draw" /\ ticks = 0
    /\ m_incoming_asteroids = <<>>
    /\ add_asteroid
    /\ spawned' = spawned + 1
    /\ UNCHANGED <<m_incoming_entities, m_game_score, m_game_over,
                   m_game_over_screen, player, m_movement, shots, main_thread,
                   spawner_pc, key_calls, history, not_game>>

\* The test runs one tick block's kill_expired() and data::tick().
split_test_step ==
    /\ pc = "draw"
    /\ ticks < MaxSplitTicks
    /\ pc' = "sweep"
    /\ ticks' = ticks + 1
    /\ UNCHANGED <<store, player, m_movement, shots, it_e, it_a,
                   spawner_pc, spawned, key_calls, next_id, history, not_game>>

NextSplit ==
    \/ split_test_add
    \/ \E i \in 1..Len(m_asteroids) : split_test_hit(i)
    \/ split_test_shoot
    \/ split_test_step
    \/ kill_expired
    \/ tick \/ drain_asteroids \/ drain_entities
    \/ tick_entities_entity \/ collision_reaction \/ tick_entities_asteroid

SpecSplit == InitSplit /\ [][NextSplit]_vars

\* Every asteroid of the store, live ones first.
AllAsteroids == m_asteroids \o m_incoming_asteroids

\* C13: every staged or live asteroid's tier is an integer from 1 to the
\* initial tier; no step raises the tier of an asteroid; and every asteroid
\* staged by a split (a step other than the spawner's add_asteroid()) sits at
\* the position of a live asteroid of a strictly higher tier, its parent (so
\* a chain of splits is no longer than the initial tier).
C13_TierBoundedAndDecreasing ==
    /\ [](\A i \in 1..Len(AllAsteroids) :
              AllAsteroids[i].size \in 1..initial_asteroid_size)
    /\ [][/\ \A i \in 1..Len(AllAsteroids), j \in 1..Len(AllAsteroids') :
                 AllAsteroids[i].id = AllAsteroids'[j].id =>
                     AllAsteroids'[j].size <= AllAsteroids[i].size
          /\ spawned' = spawned =>
                 \A k \in Len(m_incoming_asteroids) + 1 .. Len(m_incoming_asteroids') :
                     \E i \in 1..Len(m_asteroids) :
                         /\ m_asteroids[i].pos = m_incoming_asteroids'[k].pos
                         /\ m_incoming_asteroids'[k].size < m_asteroids[i].size
         ]_vars

\* A chain of splits has run to its end: an asteroid of the lowest tier, the
\* grandchild of a spawned one, has been hit and has staged nothing.
C13_Witness ==
    /\ ent_ops = initial_asteroid_size
    /\ m_incoming_asteroids = <<>>
    /\ \E i \in 1..Len(m_asteroids) :
           m_asteroids[i].size = 1 /\ m_asteroids[i].expired

(***************************************************************************)
(* thread_safe::vector under a thread that calls push_back, one that calls *)
(* erase_if and one that calls for_each.  std::vector's push_back and      *)
(* erase are not atomic: inside the lock the new element exists before it  *)
(* is whole, and remove_if leaves moved-from elements behind the kept ones *)
(* until erase cuts them off.                                              *)
(***************************************************************************)
\* Calls each thread makes.
MaxVecCalls == 2
Pusher == "w"
Eraser == "e"
Reader == "r"
\* The predicates erase_if is called with, as the ids they select.
ErasePredicates == {{1}, {1, 2}}

InitVec ==
    /\ NoGame
    /\ NoQueue
    /\ adds = <<>>
    /\ NoEnts /\ NoCq /\ NoInput /\ NoPoly /\ NoAux
    /\ m_vec = <<>> /\ vec_mut = "free"
    /\ vec_pc = [t \in {Pusher, Eraser, Reader} |-> "idle"]
    /\ vec_calls = [t \in {Pusher, Eraser, Reader} |-> 0]
    /\ vec_it = 0 /\ vec_snap = <<>> /\ vec_log = <<>>

not_vec ==
    <<game_vars, queue_vars, adds, ent_vars, cq_vars, input_vars, poly_vars,
      aux_vars>>

\* push_back: std::lock_guard{m_mut}
vec_push_back_lock ==
    /\ vec_pc[Pusher] = "idle"
    /\ vec_calls[Pusher] < MaxVecCalls
    /\ vec_mut = "free"
    /\ vec_mut' = Pusher
    /\ vec_pc' = [vec_pc EXCEPT ![Pusher] = "locked"]
    /\ UNCHANGED <<m_vec, vec_calls, vec_it, vec_snap, vec_log, not_vec>>

\* push_back: m_vec.push_back has made room for the element
vec_push_back_insert ==
    /\ vec_pc[Pusher] = "locked"
    /\ m_vec' = Append(m_vec, [id |-> vec_calls[Pusher] + 1, whole |-> FALSE])
    /\ vec_pc' = [vec_pc EXCEPT ![Pusher] = "inserting"]
    /\ UNCHANGED <<vec_mut, vec_calls, vec_it, vec_snap, vec_log, not_vec>>

\* push_back: the element is constructed and the guard released
vec_push_back ==
    /\ vec_pc[Pusher] = "inserting"
    /\ m_vec' = [m_vec EXCEPT ![Len(m_vec)].whole = TRUE]
    /\ vec_mut' = "free"
    /\ vec_pc' = [vec_pc EXCEPT ![Pusher] = "idle"]
    /\ vec_calls' = [vec_calls EXCEPT ![Pusher] = @ + 1]
    /\ UNCHANGED <<vec_it, vec_snap, vec_log, not_vec>>

\* erase_if: std::lock_guard{m_mut}
vec_erase_if_lock ==
    /\ vec_pc[Eraser] = "idle"
    /\ vec_calls[Eraser] < MaxVecCalls
    /\ vec_mut = "free"
    /\ vec_mut' = Eraser
    /\ vec_pc' = [vec_pc EXCEPT ![Eraser] = "locked"]
    /\ UNCHANGED <<m_vec, vec_calls, vec_it, vec_snap, vec_log, not_vec>>

\* erase_if: std::remove_if has moved the kept elements to the front; what is
\* behind them is moved-from.
vec_erase_if_remove ==
    /\ vec_pc[Eraser] = "locked"
    /\ \E pred \in ErasePredicates :
           LET kept == SelectSeq(m_vec, LAMBDA x : x.id \notin pred)
               rest == SelectSeq(m_vec, LAMBDA x : x.id \in pred)
           IN m_vec' = kept \o [i \in 1..Len(rest) |-> [rest[i] EXCEPT !.whole = FALSE]]
    /\ vec_pc' = [vec_pc EXCEPT ![Eraser] = "erasing"]
    /\ UNCHANGED <<vec_mut, vec_calls, vec_it, vec_snap, vec_log, not_vec>>

\* erase_if: m_vec.erase cuts the tail off, and the guard is released
vec_erase_if ==
    /\ vec_pc[Eraser] = "erasing"
    /\ m_vec' = SelectSeq(m_vec, LAMBDA x : x.whole)
    /\ vec_mut' = "free"
    /\ vec_pc' = [vec_pc EXCEPT ![Eraser] = "idle"]
    /\ vec_calls' = [vec_calls EXCEPT ![Eraser] = @ + 1]
    /\ UNCHANGED <<vec_it, vec_snap, vec_log, not_vec>>

\* for_each that starts its traversal without the lock.
vec_for_each_no_lock ==
    /\ vec_pc[Reader] = "idle"
    /\ vec_calls[Reader] < MaxVecCalls
    /\ vec_pc' = [vec_pc EXCEPT ![Reader] = "locked"]
    /\ vec_it' = 1
    /\ vec_snap' = IdSeq(m_vec)
    /\ vec_log' = <<>>
    /\ UNCHANGED <<m_vec, vec_mut, vec_calls, not_vec>>

\* for_each: std::lock_guard{m_mut}
vec_for_each_lock ==
    /\ vec_pc[Reader] = "idle"
    /\ vec_calls[Reader] < MaxVecCalls
    /\ vec_mut = "free"
    /\ vec_mut' = Reader
    /\ vec_pc' = [vec_pc EXCEPT ![Reader] = "locked"]
    /\ vec_it' = 1
    /\ vec_snap' = IdSeq(m_vec)
    /\ vec_log' = <<>>
    /\ UNCHANGED <<m_vec, vec_calls, not_vec>>

\* for_each: std::ranges::for_each calls the visitor on the next element
vec_for_each_visit ==
    /\ vec_pc[Reader] = "locked"
    /\ vec_it <= Len(m_vec)
    /\ vec_log' = Append(vec_log, <<m_vec[vec_it].id, m_vec[vec_it].whole>>)
    /\ vec_it' = vec_it + 1
    /\ UNCHANGED <<m_vec, vec_mut, vec_pc, vec_calls, vec_snap, not_vec>>

\* for_each: the end of the range, and the guard is released
vec_for_each ==
    /\ vec_pc[Reader] = "locked"
    /\ vec_it > Len(m_vec)
    /\ vec_it' = 0
    /\ vec_mut' = "free"
    /\ vec_pc' = [vec_pc EXCEPT ![Reader] = "idle"]
    /\ vec_calls' = [vec_calls EXCEPT ![Reader] = @ + 1]
    /\ UNCHANGED <<m_vec, vec_snap, vec_log, not_vec>>

NextVec ==
    \/ vec_push_back_lock \/ vec_push_back_insert \/ vec_push_back
    \/ vec_erase_if_lock \/ vec_erase_if_remove \/ vec_erase_if
    \/ vec_for_each_lock \/ vec_for_each_visit \/ vec_for_each

SpecVec == InitVec /\ [][NextVec]_vars

\* C14: from the moment a for_each takes the lock until it releases it no
\* push_back or erase_if changes the vector; at most one thread is inside an
\* operation; the visitor is handed the elements that were in the vector when
\* the lock was taken, in order and each once, and every element it is handed
\* is whole (not half-inserted, not moved-from).
C14_TraversalIsExclusive ==
    /\ [][vec_pc[Reader] = "locked" /\ vec_pc'[Reader] = "locked" => m_vec' = m_vec]_vars
    /\ [](Cardinality({t \in DOMAIN vec_pc : vec_pc[t] # "idle"}) <= 1)
    /\ [](/\ \A k \in 1..Len(vec_log) : vec_log[k] = <<vec_snap[k], TRUE>>
          /\ Len(vec_log) <= Len(vec_snap)
          /\ (vec_pc[Reader] = "idle" /\ vec_calls[Reader] > 0) =>
                 Len(vec_log) = Len(vec_snap))

\* A traversal of two elements has returned, and the eraser has since removed
\* an element that it visited.
C14_Witness ==
    /\ vec_calls[Reader] = 1 /\ vec_pc[Reader] = "idle"
    /\ Len(vec_log) = 2
    /\ vec_calls[Eraser] >= 1
    /\ Len(m_vec) < Len(vec_snap)

\* The elements of seq that have not expired, in order.
RECURSIVE Unexpired(_)
Unexpired(seq) ==
    IF seq = <<>> THEN <<>>
    ELSE IF Head(seq).expired THEN Unexpired(Tail(seq))
         ELSE <<Head(seq)>> \o Unexpired(Tail(seq))

\* C15: a kill_expired() call removes from each live collection exactly the
\* elements whose is_expired() is true when it runs and keeps every other
\* element, unaltered and in the same relative order; it leaves both staging
\* queues, the score and the game-over flag as they were.
C15_SweepRemovesExactlyExpired ==
    [][(pc = "sweep" /\ pc' = "tick") =>
           /\ m_entities' = Unexpired(m_entities)
           /\ m_asteroids' = Unexpired(m_asteroids)
           /\ \A i \in 1..Len(m_asteroids) :
                  IdCount(m_asteroids', m_asteroids[i].id) =
                      (IF m_asteroids[i].expired THEN 0 ELSE 1)
           /\ \A i \in 1..Len(m_entities) :
                  IdCount(m_entities', m_entities[i].id) =
                      (IF m_entities[i].expired THEN 0 ELSE 1)
           /\ m_incoming_entities' = m_incoming_entities
           /\ m_incoming_asteroids' = m_incoming_asteroids
           /\ m_game_score' = m_game_score
           /\ m_game_over' = m_game_over
      ]_vars

\* A sweep has just removed an asteroid and a projectile that the last
\* data::tick() had ticked, and has kept another asteroid.
C15_Witness ==
    /\ pc = "tick" /\ ticks >= 2
    /\ Len(m_asteroids) >= 1
    /\ \E k \in 1..Len(tick_log) :
           /\ LogKinds[k] = "asteroid"
           /\ LogIds[k] \notin Ids(m_asteroids)
    /\ \E k \in 1..Len(tick_log) :
           /\ LogKinds[k] = "entity"
           /\ LogIds[k] \notin Ids(m_entities)

\* No live element is expired.
NoneExpired ==
    /\ \A i \in 1..Len(m_entities) : ~m_entities[i].expired
    /\ \A i \in 1..Len(m_asteroids) : ~m_asteroids[i].expired

\* C16: a tick block runs player.tick, then kill_expired, then data::tick;
\* from the sweep until the first entity tick of the same block no live
\* element is expired, so that whatever expired in an earlier block is gone
\* before anything is ticked and an expired element that is ticked has
\* expired in the data::tick() call that ticks it.
C16_ExpiredGoneBeforeNextTick ==
    /\ [][/\ pc = "player" => pc' \in {"player", "sweep"}
          /\ pc = "sweep" => pc' \in {"sweep", "tick"}
          /\ pc' = "tick" => pc \in {"sweep", "tick"}
          /\ Len(tick_log') > Len(tick_log) =>
                 (pc \in {"tickE", "tickA"} /\ ~m_game_over)
         ]_vars
    /\ []((\/ pc \in {"tick", "drainA", "drainE"}
           \/ pc = "tickE" /\ tick_log = <<>>) => NoneExpired)

\* The second tick block has swept a projectile and the asteroid it hit in
\* the first block's data::tick().
C16_Witness ==
    /\ pc = "tick" /\ ticks = 2
    /\ Len(tick_log) >= 2
    /\ \A k \in 1..Len(tick_log) :
           LogIds[k] \notin Ids(m_entities) \cup Ids(m_asteroids)

(***************************************************************************)
(* thread_safe::queue under one producer and two consumers that call       *)
(* try_pop and wait_pop.  A call is a step that decides to call, the       *)
(* acquisition of m_mut, and the body up to the release of m_mut.          *)
(***************************************************************************)
\* Values the producer pushes: 1 .. MaxCqPush.
MaxCqPush == 2
CqProducer == "cp"
CqConsumers == {"c1", "c2"}
CqThreads == {CqProducer} \cup CqConsumers

InitCq ==
    /\ NoGame
    /\ NoQueue
    /\ adds = <<>>
    /\ NoEnts /\ NoVec /\ NoInput /\ NoPoly /\ NoAux
    /\ waiting = {}
    /\ cq_pc = [t \in CqThreads |-> "idle"]
    /\ cq_val = [t \in CqThreads |-> 0]
    /\ cq_ret = [t \in CqConsumers |-> "none"]
    /\ cq_pushed = 0
    /\ cq_got = <<>>

not_cq ==
    <<game_vars, m_cond, q_pc, q_pushed, q_log, adds, ent_vars, vec_vars,
      input_vars, poly_vars, aux_vars>>

\* The thread calls push(in_val).
cq_call_push(t, in_val) ==
    /\ cq_pc[t] = "idle"
    /\ cq_pc' = [cq_pc EXCEPT ![t] = "want_push"]
    /\ cq_val' = [cq_val EXCEPT ![t] = in_val]
    /\ UNCHANGED <<m_dat, m_mut, waiting, cq_ret, cq_pushed, cq_got, not_cq>>

\* The thread calls try_pop(out) or wait_pop(out); out keeps its value.
cq_call_pop(t, call) ==
    /\ cq_pc[t] = "idle"
    /\ cq_pc' = [cq_pc EXCEPT ![t] = call]
    /\ UNCHANGED <<m_dat, m_mut, waiting, cq_val, cq_ret, cq_pushed, cq_got, not_cq>>

\* push: std::lock_guard{m_mut}
cq_push_lock(t) ==
    /\ cq_pc[t] = "want_push"
    /\ m_mut = "free"
    /\ m_mut' = t
    /\ cq_pc' = [cq_pc EXCEPT ![t] = "in_push"]
    /\ UNCHANGED <<m_dat, waiting, cq_val, cq_ret, cq_pushed, cq_got, not_cq>>

\* push that forgets m_cond.notify_one().
cq_push_no_notify(t) ==
    /\ cq_pc[t] = "in_push"
    /\ m_dat' = Append(m_dat, cq_val[t])
    /\ cq_pushed' = cq_pushed + 1
    /\ cq_pc' = [cq_pc EXCEPT ![t] = "idle"]
    /\ m_mut' = "free"
    /\ UNCHANGED <<waiting, cq_val, cq_ret, cq_got, not_cq>>

\* push: m_dat.push, m_cond.notify_one (one of the threads blocked in wait
\* is unblocked, if there is one), and the guard's release
cq_push(t) ==
    /\ cq_pc[t] = "in_push"
    /\ m_dat' = Append(m_dat, cq_val[t])
    /\ cq_pushed' = cq_pushed + 1
    /\ IF waiting = {}
       THEN /\ cq_pc' = [cq_pc EXCEPT ![t] = "idle"]
            /\ UNCHANGED waiting
       ELSE \E w \in waiting :
                /\ waiting' = waiting \ {w}
                /\ cq_pc' = [cq_pc EXCEPT ![t] = "idle", ![w] = "woken"]
    /\ m_mut' = "free"
    /\ UNCHANGED <<cq_val, cq_ret, cq_got, not_cq>>

\* try_pop: std::lock_guard{m_mut}
cq_try_pop_lock(t) ==
    /\ cq_pc[t] = "want_try"
    /\ m_mut = "free"
    /\ m_mut' = t
    /\ cq_pc' = [cq_pc EXCEPT ![t] = "in_try"]
    /\ UNCHANGED <<m_dat, waiting, cq_val, cq_ret, cq_pushed, cq_got, not_cq>>

\* try_pop that assigns a value-initialised T to the out parameter on absence.
cq_try_pop_clears_out(t) ==
    /\ cq_pc[t] = "in_try"
    /\ IF m_dat = <<>>
       THEN /\ cq_ret' = [cq_ret EXCEPT ![t] = "false"]
            /\ cq_val' = [cq_val EXCEPT ![t] = 0]
            /\ UNCHANGED <<m_dat, cq_got>>
       ELSE /\ cq_val' = [cq_val EXCEPT ![t] = Head(m_dat)]
            /\ m_dat' = Tail(m_dat)
            /\ cq_ret' = [cq_ret EXCEPT ![t] = "true"]
            /\ cq_got' = Append(cq_got, <<t, Head(m_dat)>>)
    /\ m_mut' = "free"
    /\ cq_pc' = [cq_pc EXCEPT ![t] = "idle"]
    /\ UNCHANGED <<waiting, cq_pushed, not_cq>>

\* try_pop: the body and the guard's release
cq_try_pop(t) ==
    /\ cq_pc[t] = "in_try"
    /\ IF m_dat = <<>>
       THEN /\ cq_ret' = [cq_ret EXCEPT ![t] = "false"]
            /\ UNCHANGED <<m_dat, cq_val, cq_got>>
       ELSE /\ cq_val' = [cq_val EXCEPT ![t] = Head(m_dat)]
            /\ m_dat' = Tail(m_dat)
            /\ cq_ret' = [cq_ret EXCEPT ![t] = "true"]
            /\ cq_got' = Append(cq_got, <<t, Head(m_dat)>>)
    /\ m_mut' = "free"
    /\ cq_pc' = [cq_pc EXCEPT ![t] = "idle"]
    /\ UNCHANGED <<waiting, cq_pushed, not_cq>>

\* wait_pop: std::unique_lock{m_mut} ("in_wait": the first test of the
\* predicate follows), also on the way out of m_cond.wait ("in_rewait")
cq_wait_pop_lock(t) ==
    /\ cq_pc[t] \in {"want_wait", "woken"}
    /\ m_mut = "free"
    /\ m_mut' = t
    /\ cq_pc' = [cq_pc EXCEPT
                     ![t] = IF cq_pc[t] = "woken" THEN "in_rewait" ELSE "in_wait"]
    /\ UNCHANGED <<m_dat, waiting, cq_val, cq_ret, cq_pushed, cq_got, not_cq>>

\* A wait_pop that takes the element at the back of the queue.
cq_wait_pop_back(t) ==
    /\ cq_pc[t] \in {"in_wait", "in_rewait"}
    /\ IF m_dat = <<>>
       THEN /\ waiting' = waiting \cup {t}
            /\ cq_pc' = [cq_pc EXCEPT ![t] = "blocked"]
            /\ UNCHANGED <<m_dat, cq_val, cq_got>>
       ELSE /\ cq_val' = [cq_val EXCEPT ![t] = m_dat[Len(m_dat)]]
            /\ m_dat' = SubSeq(m_dat, 1, Len(m_dat) - 1)
            /\ cq_got' = Append(cq_got, <<t, m_dat[Len(m_dat)]>>)
            /\ cq_pc' = [cq_pc EXCEPT ![t] = "idle"]
            /\ UNCHANGED waiting
    /\ m_mut' = "free"
    /\ UNCHANGED <<cq_ret, cq_pushed, not_cq>>

\* wait_pop: m_cond.wait tests the predicate with the lock held and blocks,
\* releasing the lock, if the queue is empty; otherwise the front is moved to
\* the out parameter and popped, and the lock released.
cq_wait_pop(t) ==
    /\ cq_pc[t] \in {"in_wait", "in_rewait"}
    /\ IF m_dat = <<>>
       THEN /\ waiting' = waiting \cup {t}
            /\ cq_pc' = [cq_pc EXCEPT ![t] = "blocked"]
            /\ UNCHANGED <<m_dat, cq_val, cq_got>>
       ELSE /\ cq_val' = [cq_val EXCEPT ![t] = Head(m_dat)]
            /\ m_dat' = Tail(m_dat)
            /\ cq_got' = Append(cq_got, <<t, Head(m_dat)>>)
            /\ cq_pc' = [cq_pc EXCEPT ![t] = "idle"]
            /\ UNCHANGED waiting
    /\ m_mut' = "free"
    /\ UNCHANGED <<cq_ret, cq_pushed, not_cq>>

\* std::condition_variable::wait may unblock with no notification.
cq_spurious_wake(t) ==
    /\ t \in waiting
    /\ waiting' = waiting \ {t}
    /\ cq_pc' = [cq_pc EXCEPT ![t] = "woken"]
    /\ UNCHANGED <<m_dat, m_mut, cq_val, cq_ret, cq_pushed, cq_got, not_cq>>

\* The steps of a call in progress that the scheduler owes the thread.
cq_acquire(t) == cq_push_lock(t) \/ cq_try_pop_lock(t) \/ cq_wait_pop_lock(t)
cq_body(t) == cq_push(t) \/ cq_try_pop(t) \/ cq_wait_pop(t)

NextCq ==
    \/ cq_pushed < MaxCqPush /\ cq_call_push(CqProducer, cq_pushed + 1)
    \/ cq_push_lock(CqProducer) \/ cq_push(CqProducer)
    \/ \E c \in CqConsumers :
           \/ cq_call_pop(c, "want_try") \/ cq_call_pop(c, "want_wait")
           \/ cq_try_pop_lock(c) \/ cq_try_pop(c)
           \/ cq_wait_pop_lock(c) \/ cq_wait_pop(c)
           \/ cq_spurious_wake(c)

SpecCq == InitCq /\ [][NextCq]_vars

\* Fair scheduling: a thread that wants the mutex gets it if it is free again
\* and again, and a thread that holds it runs; nothing obliges a thread to
\* make a call.
FairCq ==
    /\ SpecCq
    /\ \A t \in CqThreads : SF_vars(cq_acquire(t)) /\ WF_vars(cq_body(t))

\* C17: a try_pop on an empty queue returns false, leaves the out parameter
\* and the queue as they were and does not wait on the condition variable; on
\* a non-empty queue it returns true, the out parameter is the element that
\* was at the front and exactly that element is gone from the queue.
C17_TryPopAbsentOrFront ==
    [][\A c \in CqConsumers :
           (cq_pc[c] = "in_try" /\ cq_pc'[c] # "in_try") =>
               /\ cq_pc'[c] = "idle" /\ c \notin waiting' /\ m_mut' = "free"
               /\ IF m_dat = <<>>
                  THEN /\ cq_ret'[c] = "false"
                       /\ cq_val'[c] = cq_val[c]
                       /\ m_dat' = <<>>
                       /\ cq_got' = cq_got
                  ELSE /\ cq_ret'[c] = "true"
                       /\ cq_val'[c] = Head(m_dat)
                       /\ m_dat' = Tail(m_dat)
      ]_vars

\* A consumer that holds a value from an earlier pop has called try_pop on the
\* empty queue: it got false and still holds the value.
C17_Witness ==
    \E c \in CqConsumers :
        /\ cq_pc[c] = "idle" /\ cq_ret[c] = "false"
        /\ cq_val[c] = 2
        /\ m_dat = <<>> /\ cq_pushed = 2

\* The values the pops have returned, in order.
GotValues == [k \in 1..Len(cq_got) |-> cq_got[k][2]]
\* The consumers inside m_cond.wait: blocked, or unblocked and not yet running.
InWait == {c \in CqConsumers : cq_pc[c] \in {"blocked", "woken"}}

\* C18 as stated: the element pushed on a queue with consumers blocked in
\* wait_pop is returned by one of them: while a consumer is inside
\* m_cond.wait no element is taken by a try_pop or by a wait_pop that did not
\* block.
C18_AsStated ==
    [][\A c \in CqConsumers :
           (cq_pc[c] \in {"in_try", "in_wait"} /\ m_dat # <<>>
            /\ cq_pc'[c] = "idle") => InWait = {}
      ]_vars

\* C18: wait_pop returns only from a test of the predicate that found the
\* queue non-empty, with the element that was at the front, which it removed;
\* a push on a queue with blocked consumers unblocks exactly one of them and
\* leaves the others blocked, and every pushed element is returned by exactly
\* one pop (of the unblocked consumer or of a thread that took the mutex
\* before it) or is still in the queue; and no wake-up is lost: under fair
\* scheduling it does not stay true for ever that an element is in the queue
\* while a consumer is inside m_cond.wait.
C18_WaitPopNoLostWakeup ==
    /\ [][/\ \A c \in CqConsumers :
                 (cq_pc[c] \in {"want_wait", "in_wait", "in_rewait",
                                "blocked", "woken"}
                  /\ cq_pc'[c] = "idle") =>
                     /\ cq_pc[c] \in {"in_wait", "in_rewait"}
                     /\ m_dat # <<>>
                     /\ cq_val'[c] = Head(m_dat)
                     /\ m_dat' = Tail(m_dat)
          /\ (cq_pc[CqProducer] = "in_push" /\ cq_pc'[CqProducer] = "idle") =>
                 /\ m_dat' = Append(m_dat, cq_val[CqProducer])
                 /\ IF waiting = {}
                    THEN waiting' = {}
                    ELSE \E w \in waiting :
                             /\ waiting' = waiting \ {w}
                             /\ cq_pc'[w] = "woken"
                             /\ \A c \in waiting' : cq_pc'[c] = "blocked"
         ]_vars
    /\ [](\A v \in 1..cq_pushed : Occurrences(GotValues \o m_dat, v) = 1)
    /\ (m_dat # <<>> /\ InWait # {}) ~> (m_dat = <<>> \/ InWait = {})

\* Both consumers called wait_pop and nothing else; after one push one of them
\* has returned with the element and the other is blocked.
C18_Witness ==
    /\ cq_pushed = 1 /\ m_dat = <<>>
    /\ \A c \in CqConsumers : cq_ret[c] = "none"
    /\ \E c \in CqConsumers :
           /\ cq_got = <<(<<c, 1>>)>>
           /\ cq_pc[c] = "idle" /\ cq_val[c] = 1
           /\ \A d \in CqConsumers \ {c} : d \in waiting /\ cq_pc[d] = "blocked"

(***************************************************************************)
(* main() and game_process_thread around control_input: the main thread    *)
(* polls window events and pushes the mapped keys, and the eof sentinel on *)
(* Closed; the input thread pops and translates.  Both have passed the     *)
(* starting_line latch.                                                    *)
(***************************************************************************)
\* Key events the window delivers before it is closed.
MaxKeyEvents == 2
MainThread == "main"
InputThread == "input"
InputThreads == {MainThread, InputThread}
\* sf::Keyboard::Scan values: the nine the game maps and one it does not.
Scancodes ==
    {"W", "Up", "S", "Down", "A", "Left", "D", "Right", "Space", "Escape"}

map_player_keypress(in) ==
    CASE in \in {"W", "Up"} -> "forward_pressed"
      [] in \in {"S", "Down"} -> "backward_pressed"
      [] in \in {"A", "Left"} -> "left_pressed"
      [] in \in {"D", "Right"} -> "right_pressed"
      [] in = "Space" -> "shoot_pressed"
      [] OTHER -> "none"

map_player_key_release(in) ==
    CASE in \in {"W", "Up"} -> "forward_released"
      [] in \in {"S", "Down"} -> "backward_released"
      [] in \in {"A", "Left"} -> "left_released"
      [] in \in {"D", "Right"} -> "right_released"
      [] in = "Space" -> "shoot_released"
      [] OTHER -> "none"

\* The player's m_movement after the call, given the one before it.
translate_keypress_to_player_action(movement, keypress) ==
    CASE keypress = "forward_pressed" -> movement \cup {"forward"}
      [] keypress = "backward_pressed" -> movement \cup {"backward"}
      [] keypress = "forward_released" -> movement \ {"forward"}
      [] keypress = "backward_released" -> movement \ {"backward"}
      [] keypress = "left_pressed" -> movement \cup {"left"}
      [] keypress = "left_released" -> movement \ {"left"}
      [] keypress = "right_pressed" -> movement \cup {"right"}
      [] keypress = "right_released" -> movement \ {"right"}
      [] keypress = "shoot_pressed" -> movement \cup {"shoot"}
      [] keypress = "shoot_released" -> movement \ {"shoot"}
      [] OTHER -> movement

InitInput ==
    /\ NoGame
    /\ NoQueue
    /\ adds = <<>>
    /\ NoEnts /\ NoVec /\ NoPoly /\ NoAux
    /\ waiting = {}
    /\ cq_pc = [t \in InputThreads |-> "idle"]
    /\ cq_val = [t \in InputThreads |-> "none"]
    /\ cq_ret = <<>>
    /\ cq_pushed = 0
    /\ cq_got = <<>>
    /\ main_pc = "poll" /\ in_pc = "loop"
    /\ is_open = TRUE /\ stop_requested = FALSE

\* What the main thread's and the input thread's own steps leave alone.
not_input ==
    <<store, player, shots, main_thread, spawner_pc, spawned, key_calls,
      next_id, history, m_cond, q_pc, q_pushed, q_log, adds, ent_vars,
      vec_vars, poly_vars, aux_vars, cq_ret, cq_pushed, cq_got, waiting,
      m_dat, m_mut>>

\* poll_event returns a KeyPressed or KeyReleased event: the call of
\* control_input.push with the mapped key
main_key_event(key) ==
    /\ main_pc = "poll"
    /\ cq_pushed < MaxKeyEvents
    /\ main_pc' = "push_key"
    /\ cq_pc' = [cq_pc EXCEPT ![MainThread] = "want_push"]
    /\ cq_val' = [cq_val EXCEPT ![MainThread] = key]
    /\ UNCHANGED <<m_movement, in_pc, is_open, stop_requested, not_input>>

\* A Closed event handled by closing the window without the sentinel.
main_closed_event_no_eof ==
    /\ main_pc = "poll"
    /\ main_pc' = "push_eof"
    /\ UNCHANGED <<m_movement, cq_pc, cq_val, in_pc, is_open, stop_requested,
                   not_input>>

\* poll_event returns a Closed event: the call of control_input.push(eof)
main_closed_event ==
    /\ main_pc = "poll"
    /\ main_pc' = "push_eof"
    /\ cq_pc' = [cq_pc EXCEPT ![MainThread] = "want_push"]
    /\ cq_val' = [cq_val EXCEPT ![MainThread] = "eof"]
    /\ UNCHANGED <<m_movement, in_pc, is_open, stop_requested, not_input>>

\* push has returned: the next event is polled, or, after the sentinel,
\* game_data.close() and the break out of the event loop
main_after_push ==
    /\ cq_pc[MainThread] = "idle"
    /\ \/ /\ main_pc = "push_key"
          /\ main_pc' = "poll"
          /\ UNCHANGED is_open
       \/ /\ main_pc = "push_eof"
          /\ is_open' = FALSE
          /\ main_pc' = "frame"
    /\ UNCHANGED <<m_movement, cq_pc, cq_val, in_pc, stop_requested, not_input>>

\* poll_event returns no event: the frame is drawn
main_no_event ==
    /\ main_pc = "poll"
    /\ main_pc' = "frame"
    /\ UNCHANGED <<m_movement, cq_pc, cq_val, in_pc, is_open, stop_requested,
                   not_input>>

\* while (++tick_count, game_data.is_open()): the next iteration, or the
\* return from main, where the destructor of game_process_thread requests
\* its stop and joins it
main_loop_test ==
    /\ main_pc = "frame"
    /\ IF is_open
       THEN main_pc' = "poll" /\ UNCHANGED stop_requested
       ELSE main_pc' = "join" /\ stop_requested' = TRUE
    /\ UNCHANGED <<m_movement, cq_pc, cq_val, in_pc, is_open, not_input>>

\* std::jthread::join returns
main_joined ==
    /\ main_pc = "join"
    /\ in_pc = "done"
    /\ main_pc' = "returned"
    /\ UNCHANGED <<m_movement, cq_pc, cq_val, in_pc, is_open, stop_requested,
                   not_input>>

\* while (!tok.stop_requested()) { player_keys key{}; the call of
\* control_input.wait_pop(key)
input_loop ==
    /\ in_pc = "loop"
    /\ IF stop_requested
       THEN in_pc' = "done" /\ UNCHANGED <<cq_pc, cq_val>>
       ELSE /\ in_pc' = "wait_pop"
            /\ cq_pc' = [cq_pc EXCEPT ![InputThread] = "want_wait"]
            /\ cq_val' = [cq_val EXCEPT ![InputThread] = "none"]
    /\ UNCHANGED <<m_movement, main_pc, is_open, stop_requested, not_input>>

\* wait_pop has returned: if (key == eof) return; translate the key
input_after_pop ==
    /\ in_pc = "wait_pop"
    /\ cq_pc[InputThread] = "idle"
    /\ IF cq_val[InputThread] = "eof"
       THEN in_pc' = "done" /\ UNCHANGED m_movement
       ELSE /\ m_movement' =
                translate_keypress_to_player_action(m_movement,
                                                    cq_val[InputThread])
            /\ in_pc' = "loop"
    /\ UNCHANGED <<cq_pc, cq_val, main_pc, is_open, stop_requested, not_input>>

main ==
    \/ \E in \in Scancodes :
           \/ main_key_event(map_player_keypress(in))
           \/ main_key_event(map_player_key_release(in))
    \/ main_closed_event
    \/ cq_push_lock(MainThread) \/ cq_push(MainThread)
    \/ main_after_push
    \/ main_no_event
    \/ main_loop_test
    \/ main_joined

game_process_thread ==
    \/ input_loop
    \/ cq_wait_pop_lock(InputThread) \/ cq_wait_pop(InputThread)
    \/ cq_spurious_wake(InputThread)
    \/ input_after_pop

NextInput == main \/ game_process_thread

SpecInput == InitInput /\ [][NextInput]_vars

\* Fair scheduling: each thread gets the mutex if it is free again and again,
\* and runs its next step; nothing obliges the window to deliver an event.
FairInput ==
    /\ SpecInput
    /\ \A t \in InputThreads : SF_vars(cq_acquire(t)) /\ WF_vars(cq_body(t))
    /\ WF_vars(input_loop) /\ WF_vars(input_after_pop)
    /\ WF_vars(main_after_push) /\ WF_vars(main_loop_test)
    /\ WF_vars(main_joined)

\* The keys pushed on control_input so far, in order.
KeysPushed == GotValues \o m_dat

\* C19 as stated: the input thread terminates by popping eof.
C19_AsStated == in_pc = "done" => cq_val[InputThread] = "eof"

\* C19: the window is closed only after eof has been pushed, and eof is the
\* last key pushed; the input thread ends only at its own return statements
\* (it popped eof, or it saw the stop request main makes when it returns) and
\* is never inside wait_pop once it has ended; and under fair scheduling,
\* once the window is closed the input thread ends and main joins it,
\* whether it was parked in wait_pop or busy with an earlier key.
C19_EofEndsInputThread ==
    /\ [](~is_open => Occurrences(KeysPushed, "eof") = 1)
    /\ [](\A i \in 1..Len(KeysPushed) :
              KeysPushed[i] = "eof" => i = Len(KeysPushed))
    /\ [](in_pc = "done" =>
              /\ cq_pc[InputThread] = "idle"
              /\ cq_val[InputThread] = "eof" \/ stop_requested)
    /\ [][in_pc # "done" /\ in_pc' = "done" =>
              \/ in_pc = "wait_pop" /\ cq_val[InputThread] = "eof"
              \/ in_pc = "loop" /\ stop_requested]_vars
    /\ (main_pc = "push_eof") ~> (in_pc = "done")
    /\ (~is_open) ~> (main_pc = "returned")

\* The input thread translated a key, was parked in wait_pop on the empty
\* queue when the window was closed, popped eof and ended; main has joined it.
C19_Witness ==
    /\ main_pc = "returned" /\ in_pc = "done"
    /\ GotValues = <<"forward_pressed", "eof">>
    /\ m_movement = {"forward"}
    /\ ~stop_requested \/ cq_val[InputThread] = "eof"

(***************************************************************************)
(* polymorphic<entity>: two objects A and B that are constructed, copied,  *)
(* moved and used through operator->.  The free store is a sequence of     *)
(* cells; an address is an index in it, 0 is nullptr.                      *)
(***************************************************************************)
\* Operations applied to the two objects.
MaxPolyOps == 4
PolyNames == {"A", "B"}
\* The concrete types the game wraps in a polymorphic<entity>.
PolyKinds == {"projectile", "temp_text"}

\* projectile(const projectile&): m_vel, m_shape, and the flag if it is set.
projectile_copy(id, other) == [other EXCEPT !.id = id]

\* text(const text&), which temp_text's implicit copy constructor calls:
\* m_vel, the font, the string, the character size and the position; the
\* copy's m_expired starts clear.
text_copy(id, other) == [other EXCEPT !.id = id, !.expired = FALSE]

\* new T(...): the free store after the allocation, and the address.
Alloc(h, obj) ==
    [heap |-> Append(h, [live |-> TRUE, obj |-> obj]), ptr |-> Len(h) + 1]

\* unique_ptr's delete of what it owned.
Free(h, a) == IF a = 0 THEN h ELSE [h EXCEPT ![a].live = FALSE]

\* A clone operation that hands back the object it was given.
manager_clone_aliases(h, cloner, in) == [heap |-> h, ptr |-> in]

\* manager<T>::clone(in): new T(*static_cast<T*>(in))
manager_clone(h, cloner, in) ==
    Alloc(h, IF cloner = "projectile"
             THEN projectile_copy(Len(h) + 1, h[in].obj)
             ELSE text_copy(Len(h) + 1, h[in].obj))

\* What new T(*in) can leave behind when in is nullptr: an object of type T
\* with indeterminate members.
IndeterminateObjects(kind, id) ==
    {[make_entity(kind, id, EntityPositions[i]) EXCEPT !.expired = b] :
         i \in 1..Len(EntityPositions), b \in BOOLEAN}

Valued(n) == polys[n].state = "live" /\ polys[n].ptr # 0
\* The entity a polymorphic owns.
Obj(n) == heap[polys[n].ptr].obj

InitPoly ==
    /\ NoGame
    /\ NoQueue
    /\ adds = <<>>
    /\ NoEnts /\ NoVec /\ NoCq /\ NoInput /\ NoAux
    /\ heap = <<>>
    /\ polys = [n \in PolyNames |-> [state |-> "none", cloner |-> "nullptr", ptr |-> 0]]
    /\ poly_pc = "run"
    /\ poly_log = <<>>

not_poly ==
    <<game_vars, queue_vars, adds, ent_vars, vec_vars, cq_vars, input_vars,
      aux_vars>>

\* The guard of every operation of the test, and its entry in the log.
PolyOp(entry) ==
    /\ poly_pc = "run"
    /\ Len(poly_log) < MaxPolyOps
    /\ poly_log' = Append(poly_log, entry)

\* polymorphic(std::in_place_type<U>, args...), polymorphic(U&& val)
poly_construct(n, kind, position) ==
    /\ polys[n].state = "none"
    /\ PolyOp(<<"construct", n, n>>)
    /\ LET new == Alloc(heap, make_entity(kind, Len(heap) + 1, position))
       IN /\ heap' = new.heap
          /\ polys' = [polys EXCEPT
                          ![n] = [state |-> "live", cloner |-> kind, ptr |-> new.ptr]]
    /\ UNCHANGED <<poly_pc, not_poly>>

\* The copy of a moved-from polymorphic calls the clone operation with
\* nullptr, which dereferences it: the program traps, or goes on with an
\* object of indeterminate members.
poly_copy_valueless(n, other, reset) ==
    \/ /\ poly_pc' = "trapped"
       /\ UNCHANGED <<heap, polys>>
    \/ /\ poly_pc' = "run"
       /\ \E obj \in IndeterminateObjects(polys[other].cloner, Len(heap) + 1) :
              LET new == Alloc(heap, obj)
              IN /\ heap' = Free(new.heap, reset)
                 /\ polys' = [polys EXCEPT
                                 ![n] = [state |-> "live",
                                         cloner |-> polys[other].cloner,
                                         ptr |-> new.ptr]]

\* polymorphic(const polymorphic& other)
poly_copy_construct(n, other) ==
    /\ polys[n].state = "none" /\ polys[other].state = "live"
    /\ PolyOp(<<"copy_construct", n, other>>)
    /\ IF polys[other].ptr = 0
       THEN poly_copy_valueless(n, other, 0)
       ELSE LET new == manager_clone(heap, polys[other].cloner, polys[other].ptr)
            IN /\ heap' = new.heap
               /\ polys' = [polys EXCEPT
                               ![n] = [state |-> "live",
                                       cloner |-> polys[other].cloner,
                                       ptr |-> new.ptr]]
               /\ UNCHANGED poly_pc
    /\ UNCHANGED not_poly

\* operator=(const polymorphic& other): the clone is made first, reset deletes
\* what this owned, and the clone operation is taken over; other may be *this
poly_copy_assign(n, other) ==
    /\ polys[n].state = "live" /\ polys[other].state = "live"
    /\ PolyOp(<<"copy_assign", n, other>>)
    /\ IF polys[other].ptr = 0
       THEN poly_copy_valueless(n, other, polys[n].ptr)
       ELSE LET new == manager_clone(heap, polys[other].cloner, polys[other].ptr)
            IN /\ heap' = Free(new.heap, polys[n].ptr)
               /\ polys' = [polys EXCEPT
                               ![n] = [state |-> "live",
                                       cloner |-> polys[other].cloner,
                                       ptr |-> new.ptr]]
               /\ UNCHANGED poly_pc
    /\ UNCHANGED not_poly

\* A move constructor that leaves the source its pointer.
poly_move_construct_keeps_source(n, other) ==
    /\ polys[n].state = "none" /\ polys[other].state = "live"
    /\ PolyOp(<<"move_construct", n, other>>)
    /\ polys' = [polys EXCEPT
                    ![n] = [state |-> "live", cloner |-> polys[other].cloner,
                            ptr |-> polys[other].ptr]]
    /\ UNCHANGED <<heap, poly_pc, not_poly>>

\* polymorphic(polymorphic&&) = default: the pointer is taken, the clone
\* operation copied
poly_move_construct(n, other) ==
    /\ polys[n].state = "none" /\ polys[other].state = "live"
    /\ PolyOp(<<"move_construct", n, other>>)
    /\ polys' = [polys EXCEPT
                    ![n] = [state |-> "live", cloner |-> polys[other].cloner,
                            ptr |-> polys[other].ptr],
                    ![other].ptr = 0]
    /\ UNCHANGED <<heap, poly_pc, not_poly>>

\* operator=(polymorphic&&) = default: the clone operation is copied and the
\* unique_ptr move-assigned, reset(other.release()), which deletes what this
\* owned; on *this itself that releases and takes back the same pointer
poly_move_assign(n, other) ==
    /\ polys[n].state = "live" /\ polys[other].state = "live"
    /\ PolyOp(<<"move_assign", n, other>>)
    /\ IF n = other
       THEN UNCHANGED <<heap, polys>>
       ELSE /\ heap' = Free(heap, polys[n].ptr)
            /\ polys' = [polys EXCEPT
                            ![n] = [state |-> "live",
                                    cloner |-> polys[other].cloner,
                                    ptr |-> polys[other].ptr],
                            ![other].ptr = 0]
    /\ UNCHANGED <<poly_pc, not_poly>>

\* n->set_position(new_pos)
poly_set_position(n, new_pos) ==
    /\ Valued(n)
    /\ PolyOp(<<"set_position", n, n>>)
    /\ heap' = [heap EXCEPT ![polys[n].ptr].obj.pos = new_pos]
    /\ UNCHANGED <<polys, poly_pc, not_poly>>

\* n->tick(dat), up to the projectile's collision pass
poly_tick(n) ==
    /\ Valued(n)
    /\ PolyOp(<<"tick", n, n>>)
    /\ \E elapsed \in BOOLEAN :
           heap' = [heap EXCEPT ![polys[n].ptr].obj =
                       IF Obj(n).kind = "projectile"
                       THEN projectile_move(Obj(n))
                       ELSE temp_text_tick(Obj(n), elapsed)]
    /\ UNCHANGED <<polys, poly_pc, not_poly>>

NextPoly ==
    \E n \in PolyNames :
        \/ \E kind \in PolyKinds : poly_construct(n, kind, EntityPositions[1])
        \/ \E other \in PolyNames :
               \/ poly_copy_construct(n, other)
               \/ poly_copy_assign(n, other)
               \/ poly_move_construct(n, other)
               \/ poly_move_assign(n, other)
        \/ \E i \in 1..Len(EntityPositions) :
               poly_set_position(n, EntityPositions[i])
        \/ poly_tick(n)

SpecPoly == InitPoly /\ [][NextPoly]_vars

\* The operation a step applies, when it applies one.
PolyStep(op) == Len(poly_log') > Len(poly_log) /\ poly_log'[Len(poly_log')][1] \in op
PolyTarget == poly_log'[Len(poly_log')][2]
PolySource == poly_log'[Len(poly_log')][3]

\* C20: a copy of a polymorphic that holds an entity (copy construction or
\* copy assignment) owns a new object of the source's concrete type, with the
\* source's position and velocity and the source's clone operation, and
\* leaves the source as it was; no two polymorphics ever own the same object
\* and none owns a deleted one; so set_position and tick through one
\* polymorphic change the entity of no other.
C20_CopyIsIndependent ==
    /\ [](\A n \in PolyNames :
              Valued(n) =>
                  /\ heap[polys[n].ptr].live
                  /\ Obj(n).kind = polys[n].cloner
                  /\ \A r \in PolyNames \ {n} : polys[r].ptr # polys[n].ptr)
    /\ [][(PolyStep({"copy_construct", "copy_assign"}) /\ poly_pc' = "run"
           /\ polys[PolySource].ptr # 0) =>
              LET n == PolyTarget
                  s == PolySource
                  before == heap[polys[s].ptr].obj
                  after == heap'[polys'[n].ptr].obj
              IN /\ polys'[n].ptr \notin {0, polys[s].ptr}
                 /\ polys'[n].ptr \notin {polys[r].ptr : r \in PolyNames}
                 /\ polys'[n].cloner = polys[s].cloner
                 /\ after.kind = before.kind
                 /\ after.pos = before.pos /\ after.vel = before.vel
                 /\ n # s => polys'[s] = polys[s]
                 /\ heap'[polys[s].ptr].obj = before
         ]_vars
    /\ [][PolyStep({"set_position", "tick"}) =>
              \A r \in PolyNames \ {PolyTarget} :
                  /\ polys'[r] = polys[r]
                  /\ Valued(r) => heap'[polys'[r].ptr] = heap[polys[r].ptr]
         ]_vars

\* B was copy-constructed from A, then each was moved to a different place:
\* they are two objects of one type at two positions.
C20_Witness ==
    /\ poly_log = <<(<<"construct", "A", "A">>), (<<"copy_construct", "B", "A">>),
                    (<<"set_position", "B", "B">>), (<<"tick", "A", "A">>)>>
    /\ Valued("A") /\ Valued("B")
    /\ Obj("A").kind = Obj("B").kind
    /\ Obj("B").pos = EntityPositions[2]
    /\ Obj("A").pos \notin {EntityPositions[1], EntityPositions[2]}

\* The polymorphics that hold a pointer to a cell.
Owners(a) == {n \in PolyNames : polys[n].state = "live" /\ polys[n].ptr = a}
Valueless(n) == polys[n].state = "live" /\ polys[n].ptr = 0
\* The step makes n valueless.
BecomesValueless(n) == Valueless(n)' /\ ~Valueless(n)

\* C21 as stated: a polymorphic becomes valueless only by being moved from.
C21_AsStated ==
    [][\A n \in PolyNames :
           BecomesValueless(n) =>
               /\ PolyStep({"move_construct", "move_assign"})
               /\ PolySource = n /\ PolyTarget # n
      ]_vars

\* C21: a move construction, and a move assignment from another polymorphic,
\* allocate nothing, leave the destination with the source's pointer and clone
\* operation and the source with nullptr, and change no entity; a move
\* assignment to itself changes nothing.  A polymorphic becomes valueless only
\* by being moved from, or by being move-constructed or move-assigned from a
\* valueless one; every live object is owned by exactly one polymorphic and
\* every deleted one by none.
C21_MoveTransfersOwnership ==
    /\ [][PolyStep({"move_construct", "move_assign"}) =>
              LET n == PolyTarget
                  s == PolySource
              IN /\ Len(heap') = Len(heap)
                 /\ \A a \in 1..Len(heap) : heap'[a].obj = heap[a].obj
                 /\ IF n = s
                    THEN polys' = polys /\ heap' = heap
                    ELSE /\ polys'[n].ptr = polys[s].ptr
                         /\ polys'[n].cloner = polys[s].cloner
                         /\ polys'[n].state = "live"
                         /\ polys'[s].ptr = 0 /\ polys'[s].state = "live"
                         /\ polys[s].ptr # 0 => heap'[polys[s].ptr].live
         ]_vars
    /\ [][\A n \in PolyNames :
              BecomesValueless(n) =>
                  /\ PolyStep({"move_construct", "move_assign"})
                  /\ \/ PolySource = n /\ PolyTarget # n
                     \/ PolyTarget = n /\ polys[PolySource].ptr = 0
         ]_vars
    /\ [](\A a \in 1..Len(heap) :
              Cardinality(Owners(a)) = IF heap[a].live THEN 1 ELSE 0)

\* A was moved into B: B holds the object A was constructed with, which was
\* the only allocation, and A is valueless.
C21_Witness ==
    /\ poly_log = <<(<<"construct", "A", "A">>), (<<"move_construct", "B", "A">>)>>
    /\ Valueless("A")
    /\ polys["B"].ptr = 1 /\ Len(heap) = 1 /\ heap[1].live
    /\ Owners(1) = {"B"}

(***************************************************************************)
(* player's intent calls made by two threads.  Each call is one atomic     *)
(* read-modify-write of m_movement, so a call is one step.                 *)
(***************************************************************************)
\* Intent calls the test makes.
MaxIntentCalls == 3
IntentCallers == {"t1", "t2"}
\* player::move_state
move_state == {"forward", "backward", "left", "right", "shoot"}

\* A clear that masks with the key's bit, not with its complement.
player_clear_no_complement(movement, in) == movement \cap {in}

\* player::set: m_movement.fetch_or(in)
player_set(movement, in) == movement \cup {in}
\* player::clear: m_movement.fetch_and(~in)
player_clear(movement, in) == movement \ {in}

InitIntent ==
    /\ InitGame
    /\ NoQueue
    /\ adds = <<>>
    /\ NoTests

not_intent ==
    <<store, player, shots, main_thread, spawner_pc, spawned, key_calls,
      next_id, history, queue_vars, adds, ent_vars, vec_vars, cq_vars,
      input_vars, poly_vars, shape_vars, lock_vars, fn_vars>>

\* forward_down() ... shoot_down() called by thread t
intent_down(t, in) ==
    /\ Len(call_log) < MaxIntentCalls
    /\ m_movement' = player_set(m_movement, in)
    /\ call_log' = Append(call_log, <<t, in, "down">>)
    /\ UNCHANGED not_intent

\* forward_up() ... shoot_up() called by thread t
intent_up(t, in) ==
    /\ Len(call_log) < MaxIntentCalls
    /\ m_movement' = player_clear(m_movement, in)
    /\ call_log' = Append(call_log, <<t, in, "up">>)
    /\ UNCHANGED not_intent

NextIntent ==
    \E t \in IntentCallers, in \in move_state : intent_down(t, in) \/ intent_up(t, in)

SpecIntent == InitIntent /\ [][NextIntent]_vars

\* The calls made for a key, by their place in the log.
CallsFor(in) == {i \in 1..Len(call_log) : call_log[i][2] = in}
LastCallFor(in) == call_log[CHOOSE i \in CallsFor(in) : \A j \in CallsFor(in) : j <= i]

\* C22: each intent call sets (down) or clears (up) its own key's bit and
\* leaves the other bits as they were; a call on a bit that is already as the
\* call leaves it changes nothing; and each key's bit is set exactly when the
\* last call made for that key, by whichever thread, was a down.
C22_IntentBitsAtomic ==
    /\ [][Len(call_log') > Len(call_log) =>
              LET call == call_log'[Len(call_log')]
                  in == call[2]
              IN /\ m_movement' \ {in} = m_movement \ {in}
                 /\ in \in m_movement' <=> call[3] = "down"
                 /\ (in \in m_movement <=> call[3] = "down") =>
                        m_movement' = m_movement
         ]_vars
    /\ [](\A in \in move_state :
              in \in m_movement <=>
                  (CallsFor(in) # {} /\ LastCallFor(in)[3] = "down"))

\* One thread pressed forward, the other pressed shoot and then released the
\* first thread's forward: only the shoot bit is set.
C22_Witness ==
    /\ call_log = <<(<<"t1", "forward", "down">>), (<<"t2", "shoot", "down">>),
                    (<<"t2", "forward", "up">>)>>
    /\ m_movement = {"shoot"}

(***************************************************************************)
(* data::add_score called by two threads.  The call is one atomic          *)
(* fetch_add on m_game_score, so a call is one step.                       *)
(***************************************************************************)
\* add_score calls the test makes.
MaxScoreCalls == 3
ScoreCallers == {"t1", "t2"}
\* The amount the game passes, its negation, and an amount that is not a
\* multiple of it.
ScoreAmounts == {score_per_asteroid, -score_per_asteroid, 1}

\* An add_score that stores the amount.
add_score_stores(score, in) == in

\* data::add_score: m_game_score.fetch_add(in)
add_score(score, in) == score + in

InitScore ==
    /\ InitGame
    /\ NoQueue
    /\ adds = <<>>
    /\ NoTests

\* add_score(in) called by thread t
score_test_add(t, in) ==
    /\ Len(call_log) < MaxScoreCalls
    /\ m_game_score' = add_score(m_game_score, in)
    /\ call_log' = Append(call_log, <<t, in>>)
    /\ UNCHANGED <<m_entities, m_incoming_entities, m_asteroids,
                   m_incoming_asteroids, m_game_over, m_game_over_screen,
                   player, m_movement, shots, main_thread, spawner_pc, spawned,
                   key_calls, next_id, history, queue_vars, adds, ent_vars,
                   vec_vars, cq_vars, input_vars, poly_vars, shape_vars,
                   lock_vars, fn_vars>>

NextScore == \E t \in ScoreCallers, in \in ScoreAmounts : score_test_add(t, in)

SpecScore == InitScore /\ [][NextScore]_vars

RECURSIVE SumAmounts(_)
SumAmounts(log) ==
    IF log = <<>> THEN 0 ELSE log[1][2] + SumAmounts(Tail(log))
\* The calls so far are the ones the game makes: add_score(score_per_asteroid).
GameCallsOnly(log) == \A i \in 1..Len(log) : log[i][2] = score_per_asteroid

\* C24: the score is the sum of the amounts of the completed add_score calls,
\* whichever threads made them, and each call adds its amount once; when every
\* call passes score_per_asteroid, as the game's only call does, the score is
\* score_per_asteroid times the number of calls: a multiple of it that no
\* call decreases.
C24_ScoreIsSumOfCalls ==
    /\ [](m_game_score = SumAmounts(call_log))
    /\ [][Len(call_log') > Len(call_log) =>
              m_game_score' = m_game_score + call_log'[Len(call_log')][2]]_vars
    /\ [](GameCallsOnly(call_log) =>
              /\ m_game_score = score_per_asteroid * Len(call_log)
              /\ m_game_score % score_per_asteroid = 0)
    /\ [][GameCallsOnly(call_log') => m_game_score' >= m_game_score]_vars

\* Both threads have scored: three asteroids' worth.
C24_Witness ==
    /\ call_log = <<(<<"t1", score_per_asteroid>>), (<<"t2", score_per_asteroid>>),
                    (<<"t1", score_per_asteroid>>)>>
    /\ m_game_score = 3 * score_per_asteroid

(***************************************************************************)
(* thread_safe::shape: one thread calls set_position, one move and two     *)
(* get_position.  A write of the position stores its two floats one after  *)
(* the other, in either order, and a read loads them one after the other.  *)
(***************************************************************************)
\* Calls each thread makes.
MaxShapeCalls == 1
ShapeSetter == "s"
ShapeMover == "m"
ShapeGetters == {"g1", "g2"}
ShapeThreads == {ShapeSetter, ShapeMover} \cup ShapeGetters
\* Arguments of set_position and of move.
ShapeTargets == {<<10, 10>>, <<20, 20>>}
ShapeOffsets == {<<1, 1>>}

InitShape ==
    /\ NoGame
    /\ NoQueue
    /\ adds = <<>>
    /\ NoEnts /\ NoVec /\ NoCq /\ NoInput /\ NoPoly
    /\ call_log = <<>>
    /\ NoLocks /\ NoFn
    /\ sh_pos = <<0, 0>>
    /\ sh_mut = [excl |-> "free", shared |-> {}]
    /\ sh_pc = [t \in ShapeThreads |-> "idle"]
    /\ sh_arg = [t \in ShapeThreads |-> <<0, 0>>]
    /\ sh_calls = [t \in ShapeThreads |-> 0]
    /\ sh_written = {<<0, 0>>}

not_shape ==
    <<game_vars, queue_vars, adds, ent_vars, vec_vars, cq_vars, input_vars,
      poly_vars, call_log, lock_vars, fn_vars>>

\* The thread calls set_position(new_pos), move(move_vec) or get_position().
shape_call(t) ==
    /\ sh_pc[t] = "idle"
    /\ sh_calls[t] < MaxShapeCalls
    /\ \/ /\ t = ShapeSetter
          /\ \E new_pos \in ShapeTargets : sh_arg' = [sh_arg EXCEPT ![t] = new_pos]
          /\ sh_pc' = [sh_pc EXCEPT ![t] = "want_excl"]
       \/ /\ t = ShapeMover
          /\ \E move_vec \in ShapeOffsets : sh_arg' = [sh_arg EXCEPT ![t] = move_vec]
          /\ sh_pc' = [sh_pc EXCEPT ![t] = "want_excl"]
       \/ /\ t \in ShapeGetters
          /\ sh_pc' = [sh_pc EXCEPT ![t] = "want_shared"]
          /\ UNCHANGED sh_arg
    /\ UNCHANGED <<sh_pos, sh_mut, sh_calls, sh_written, not_shape>>

\* set_position, move: std::lock_guard{m_mut}; move's target is the position
\* it finds plus the offset
shape_lock(t) ==
    /\ sh_pc[t] = "want_excl"
    /\ sh_mut.excl = "free" /\ sh_mut.shared = {}
    /\ sh_mut' = [sh_mut EXCEPT !.excl = t]
    /\ sh_pc' = [sh_pc EXCEPT ![t] = "write"]
    /\ sh_arg' = [sh_arg EXCEPT
                     ![t] = IF t = ShapeMover THEN VAdd(sh_pos, sh_arg[t]) ELSE @]
    /\ UNCHANGED <<sh_pos, sh_calls, sh_written, not_shape>>

\* A get_position that reads without the lock.
shape_lock_shared_skipped(t) ==
    /\ sh_pc[t] = "want_shared"
    /\ sh_mut' = [sh_mut EXCEPT !.shared = @ \cup {t}]
    /\ sh_pc' = [sh_pc EXCEPT ![t] = "read"]
    /\ UNCHANGED <<sh_pos, sh_arg, sh_calls, sh_written, not_shape>>

\* get_position: std::shared_lock{m_mut}
shape_lock_shared(t) ==
    /\ sh_pc[t] = "want_shared"
    /\ sh_mut.excl = "free"
    /\ sh_mut' = [sh_mut EXCEPT !.shared = @ \cup {t}]
    /\ sh_pc' = [sh_pc EXCEPT ![t] = "read"]
    /\ UNCHANGED <<sh_pos, sh_arg, sh_calls, sh_written, not_shape>>

\* setPosition stores one float of the position
shape_write_first(t) ==
    /\ sh_pc[t] = "write"
    /\ \E c \in 1..2 :
           /\ sh_pos' = [sh_pos EXCEPT ![c] = sh_arg[t][c]]
           /\ sh_pc' = [sh_pc EXCEPT ![t] = IF c = 1 THEN "write_y" ELSE "write_x"]
    /\ UNCHANGED <<sh_mut, sh_arg, sh_calls, sh_written, not_shape>>

\* setPosition stores the other float, and the guard releases the mutex
shape_write_second(t) ==
    /\ sh_pc[t] \in {"write_x", "write_y"}
    /\ sh_pos' = sh_arg[t]
    /\ sh_written' = sh_written \cup {sh_arg[t]}
    /\ sh_mut' = [sh_mut EXCEPT !.excl = "free"]
    /\ sh_pc' = [sh_pc EXCEPT ![t] = "idle"]
    /\ sh_calls' = [sh_calls EXCEPT ![t] = @ + 1]
    /\ UNCHANGED <<sh_arg, not_shape>>

\* getPosition loads x
shape_read_x(t) ==
    /\ sh_pc[t] = "read"
    /\ sh_arg' = [sh_arg EXCEPT ![t] = <<sh_pos[1], 0>>]
    /\ sh_pc' = [sh_pc EXCEPT ![t] = "read_y"]
    /\ UNCHANGED <<sh_pos, sh_mut, sh_calls, sh_written, not_shape>>

\* getPosition loads y, and the shared lock is released
shape_read_y(t) ==
    /\ sh_pc[t] = "read_y"
    /\ sh_arg' = [sh_arg EXCEPT ![t] = <<sh_arg[t][1], sh_pos[2]>>]
    /\ sh_mut' = [sh_mut EXCEPT !.shared = @ \ {t}]
    /\ sh_pc' = [sh_pc EXCEPT ![t] = "idle"]
    /\ sh_calls' = [sh_calls EXCEPT ![t] = @ + 1]
    /\ UNCHANGED <<sh_pos, sh_written, not_shape>>

NextShape ==
    \E t \in ShapeThreads :
        \/ shape_call(t)
        \/ shape_lock(t) \/ shape_write_first(t) \/ shape_write_second(t)
        \/ shape_lock_shared(t) \/ shape_read_x(t) \/ shape_read_y(t)

SpecShape == InitShape /\ [][NextShape]_vars

\* C25: no thread is between the two stores of a write while another reads:
\* a get_position that returns returns the position the shape has at that
\* moment, which is the initial one or one a completed set_position or move
\* produced, and the result of every returned get_position is such a
\* position.
C25_PositionNotTorn ==
    /\ [](\A g \in ShapeGetters :
              (sh_pc[g] = "idle" /\ sh_calls[g] > 0) => sh_arg[g] \in sh_written)
    /\ [](sh_mut.shared # {} => sh_mut.excl = "free" /\ sh_pos \in sh_written)
    /\ [][\A g \in ShapeGetters :
              (sh_pc[g] = "read_y" /\ sh_pc'[g] = "idle") =>
                  sh_arg'[g] = sh_pos /\ sh_pos \in sh_written]_vars

\* A get_position that had to wait for a set_position in progress returned
\* what it wrote, while the other reader returned the initial position.
C25_Witness ==
    /\ sh_calls[ShapeSetter] = 1
    /\ \E g \in ShapeGetters :
           /\ sh_pc[g] = "idle" /\ sh_calls[g] = 1
           /\ sh_arg[g] = sh_arg[ShapeSetter] /\ sh_arg[g] # <<0, 0>>
           /\ \E h \in ShapeGetters \ {g} :
                  sh_pc[h] = "idle" /\ sh_calls[h] = 1 /\ sh_arg[h] = <<0, 0>>

(***************************************************************************)
(* Ownership of the entities of the game.                                  *)
(***************************************************************************)
\* The two staging queues and the two live collections, end to end.
AllContainers == m_incoming_asteroids \o m_asteroids \o m_incoming_entities \o m_entities

\* C23: every entity created so far is in at most one of the asteroid
\* staging queue, the live asteroid collection, the entity staging queue and
\* the live general collection, and at most once in it; nothing else is in
\* them; and a drain step that grows a live collection appends the front
\* element of its staging queue and removes it from the queue.
C23_SingleOwner ==
    /\ [](\A id \in Ids(AllContainers) :
              id \in 1..(next_id - 1) /\ IdCount(AllContainers, id) = 1)
    /\ [][/\ Len(m_asteroids') > Len(m_asteroids) =>
                /\ m_incoming_asteroids # <<>>
                /\ m_asteroids' = Append(m_asteroids, Head(m_incoming_asteroids))
                /\ Head(m_incoming_asteroids).id \notin Ids(m_incoming_asteroids')
          /\ Len(m_entities') > Len(m_entities) =>
                /\ m_incoming_entities # <<>>
                /\ m_entities' = Append(m_entities, Head(m_incoming_entities))
                /\ Head(m_incoming_entities).id \notin Ids(m_incoming_entities')]_vars

\* A drained asteroid and a drained projectile are live while another
\* asteroid and another projectile wait in the staging queues.
C23_Witness ==
    /\ m_asteroids # <<>> /\ m_entities # <<>>
    /\ m_incoming_asteroids # <<>> /\ m_incoming_entities # <<>>
    /\ \E id \in staged_at_tick.entities : IdCount(m_entities, id) = 1

(***************************************************************************)
(* The locking of the three threads.  Each function of the program is the  *)
(* sequence of lock and unlock calls it makes, the calls of the functions  *)
(* it calls included; the live collections hold one projectile, one        *)
(* temp_text and one asteroid.  A thread takes one step per call.          *)
(***************************************************************************)
\* Rounds of its loop each thread makes.
MaxLockRounds == 1
LockThreads == {"main", "spawn_asteroids", "game_process_thread"}
\* What a frame of the main loop does: nothing is due; a quiet tick; a tick
\* with a shot, a hit and a player collision; a tick of the finished game;
\* the Closed event.
FrameKinds == {"frame", "tick", "action", "over", "closed"}

\* std::lock_guard / std::unique_lock around body
Guarded(mut, body) == <<<<"lock", mut>>>> \o body \o <<<<"unlock", mut>>>>
\* std::shared_lock around body
Shared(mut, body) == <<<<"lock_shared", mut>>>> \o body \o <<<<"unlock", mut>>>>

\* thread_safe::window: clear, display, get_size, is_open, close, poll_event
window_locks == Guarded("m_window", <<>>)
\* thread_safe::window::draw(const thread_safe::shape<T>&)
window_draw_locks(shp) == Guarded("m_window", Shared(shp, <<>>))
\* thread_safe::queue: push, try_pop, wait_pop
queue_locks(q) == Guarded(q, <<>>)
\* thread_safe::shape: the setters and the getters
shape_set_locks(shp) == Guarded(shp, <<>>)
shape_get_locks(shp) == Shared(shp, <<>>)

\* shape_within_bounds(ent, wdw.window_size())
shape_within_bounds_locks(shp) ==
    window_locks \o shape_get_locks(shp) \o shape_get_locks(shp)

\* An on_collision that puts the children into the live collection.
on_collision_inserts_directly ==
    shape_get_locks("asteroid.m_shape") \o Guarded("m_asteroids", <<>>)
        \o shape_get_locks("asteroid.m_shape") \o Guarded("m_asteroids", <<>>)

\* asteroid::on_collision: two add_asteroid(asteroid{get_position(), ...})
on_collision_locks ==
    shape_get_locks("asteroid.m_shape") \o queue_locks("m_incoming_asteroids")
        \o shape_get_locks("asteroid.m_shape") \o queue_locks("m_incoming_asteroids")

\* projectile::tick, with a collision_reaction that finds a hit or none
projectile_tick_locks(hit) ==
    Guarded("projectile.m_mut", shape_set_locks("projectile.m_shape"))
        \o shape_within_bounds_locks("projectile.m_shape")
        \o Guarded("m_asteroids",
               shape_get_locks("projectile.m_shape")
                   \o shape_get_locks("projectile.m_shape")
                   \o shape_get_locks("asteroid.m_shape")
                   \o shape_get_locks("asteroid.m_shape")
                   \o IF hit
                      THEN on_collision_locks
                               \o shape_get_locks("asteroid.m_shape")
                               \o queue_locks("m_incoming_entities")
                      ELSE <<>>)

\* temp_text::tick: text::tick, then the test of the lifetime
temp_text_tick_locks ==
    Guarded("temp_text.m_mut",
            shape_set_locks("temp_text.m_text")
                \o shape_within_bounds_locks("temp_text.m_text"))
        \o Guarded("temp_text.m_mut", <<>>)

\* asteroid::tick
asteroid_tick_locks ==
    shape_set_locks("asteroid.m_shape") \o window_locks
        \o shape_get_locks("asteroid.m_shape")

\* player::shoot, the time between shots over
shoot_locks ==
    shape_get_locks("player.m_shape") \o shape_get_locks("player.m_shape")
        \o shape_get_locks("player.m_shape")
        \o queue_locks("m_incoming_entities")

\* player::tick
player_tick_locks(over, acting) ==
    IF over THEN <<>>
    ELSE Guarded("player.m_mut",
             shape_get_locks("player.m_shape")
                 \o (IF acting
                     THEN shape_set_locks("player.m_shape") \o shoot_locks
                     ELSE <<>>)
                 \o shape_get_locks("player.m_shape")
                 \o shape_get_locks("player.m_shape")
                 \o window_locks
                 \o shape_set_locks("player.m_shape")
                 \o Guarded("m_asteroids",
                        shape_get_locks("player.m_shape")
                            \o shape_get_locks("asteroid.m_shape")
                            \o shape_get_locks("asteroid.m_shape")
                            \o shape_get_locks("player.m_shape")))

\* data::draw_all
draw_all_locks(over) ==
    Guarded("m_entities",
            window_draw_locks("projectile.m_shape")
                \o Shared("temp_text.m_mut", window_draw_locks("temp_text.m_text")))
        \o Guarded("m_asteroids", window_draw_locks("asteroid.m_shape"))
        \o Shared("m_score_object.m_mut", window_draw_locks("m_score_object.m_text"))
        \o IF over
           THEN Shared("m_game_over_screen.m_mut",
                       window_draw_locks("m_game_over_screen.m_text"))
           ELSE <<>>

\* data::kill_expired
kill_expired_locks == Guarded("m_entities", <<>>) \o Guarded("m_asteroids", <<>>)

\* data::tick_entities
tick_entities_locks(hit) ==
    Guarded("m_entities", projectile_tick_locks(hit) \o temp_text_tick_locks)
        \o Guarded("m_asteroids", asteroid_tick_locks)

\* data::tick
data_tick_locks(over, hit) ==
    IF over
    THEN window_locks \o shape_set_locks("m_game_over_screen.m_text")
    ELSE queue_locks("m_incoming_asteroids") \o Guarded("m_asteroids", <<>>)
             \o queue_locks("m_incoming_asteroids")
             \o queue_locks("m_incoming_entities") \o Guarded("m_entities", <<>>)
             \o queue_locks("m_incoming_entities")
             \o shape_set_locks("m_score_object.m_text")
             \o tick_entities_locks(hit)

\* main: one round of while (++tick_count, game_data.is_open())
main_locks(kind) ==
    window_locks
        \o window_locks
        \o (IF kind = "closed"
            THEN queue_locks("control_input") \o window_locks
            ELSE IF kind \in {"tick", "action"}
            THEN queue_locks("control_input") \o window_locks
            ELSE <<>>)
        \o window_locks
        \o window_draw_locks("player.m_shape")
        \o draw_all_locks(kind = "over")
        \o window_locks
        \o IF kind \in {"tick", "action", "over"}
           THEN player_tick_locks(kind = "over", kind = "action")
                    \o kill_expired_locks
                    \o data_tick_locks(kind = "over", kind = "action")
           ELSE <<>>

\* spawn_asteroids: game_data.add_asteroid()
spawn_asteroids_locks == window_locks \o queue_locks("m_incoming_asteroids")

\* game_process_thread: control_input.wait_pop(key); the player's intent
\* calls are atomic operations
game_process_thread_locks == queue_locks("control_input")

InitLocks ==
    /\ NoGame
    /\ NoQueue
    /\ adds = <<>>
    /\ NoEnts /\ NoVec /\ NoCq /\ NoInput /\ NoPoly
    /\ call_log = <<>>
    /\ NoShape /\ NoFn
    /\ lk_prog = [t \in LockThreads |-> <<>>]
    /\ lk_held = [t \in LockThreads |-> <<>>]
    /\ lk_order = {}
    /\ lk_rounds = [t \in LockThreads |-> 0]

not_locks ==
    <<game_vars, queue_vars, adds, ent_vars, vec_vars, cq_vars, input_vars,
      poly_vars, call_log, shape_vars, fn_vars>>

\* The mutexes t holds.
HeldBy(t) == {lk_held[t][i][2] : i \in 1..Len(lk_held[t])}
\* The threads that hold mut, in the mode.
Holders(mut, mode) ==
    {t \in LockThreads : \E i \in 1..Len(lk_held[t]) : lk_held[t][i] = <<mode, mut>>}

\* The thread starts a round of its loop.
lock_round(t) ==
    /\ lk_prog[t] = <<>>
    /\ lk_rounds[t] < MaxLockRounds
    /\ lk_rounds' = [lk_rounds EXCEPT ![t] = @ + 1]
    /\ \/ /\ t = "main"
          /\ \E kind \in FrameKinds : lk_prog' = [lk_prog EXCEPT ![t] = main_locks(kind)]
       \/ /\ t = "spawn_asteroids"
          /\ lk_prog' = [lk_prog EXCEPT ![t] = spawn_asteroids_locks]
       \/ /\ t = "game_process_thread"
          /\ lk_prog' = [lk_prog EXCEPT ![t] = game_process_thread_locks]
    /\ UNCHANGED <<lk_held, lk_order, not_locks>>

\* std::mutex::lock, std::shared_mutex::lock: nobody holds it, the caller
\* included
lock_exclusive(t) ==
    /\ lk_prog[t] # <<>>
    /\ Head(lk_prog[t])[1] = "lock"
    /\ LET mut == Head(lk_prog[t])[2] IN
           /\ Holders(mut, "lock") \cup Holders(mut, "lock_shared") = {}
           /\ lk_order' = lk_order \cup {<<t, h, mut>> : h \in HeldBy(t)}
           /\ lk_held' = [lk_held EXCEPT ![t] = Append(@, <<"lock", mut>>)]
    /\ lk_prog' = [lk_prog EXCEPT ![t] = Tail(@)]
    /\ UNCHANGED <<lk_rounds, not_locks>>

\* std::shared_mutex::lock_shared: nobody holds it exclusively
lock_shared(t) ==
    /\ lk_prog[t] # <<>>
    /\ Head(lk_prog[t])[1] = "lock_shared"
    /\ LET mut == Head(lk_prog[t])[2] IN
           /\ Holders(mut, "lock") = {}
           /\ lk_order' = lk_order \cup {<<t, h, mut>> : h \in HeldBy(t)}
           /\ lk_held' = [lk_held EXCEPT ![t] = Append(@, <<"lock_shared", mut>>)]
    /\ lk_prog' = [lk_prog EXCEPT ![t] = Tail(@)]
    /\ UNCHANGED <<lk_rounds, not_locks>>

\* unlock, unlock_shared: the guards are destroyed in reverse order
lock_release(t) ==
    /\ lk_prog[t] # <<>>
    /\ Head(lk_prog[t])[1] = "unlock"
    /\ lk_held[t] # <<>>
    /\ lk_held[t][Len(lk_held[t])][2] = Head(lk_prog[t])[2]
    /\ lk_held' = [lk_held EXCEPT ![t] = SubSeq(@, 1, Len(@) - 1)]
    /\ lk_prog' = [lk_prog EXCEPT ![t] = Tail(@)]
    /\ UNCHANGED <<lk_order, lk_rounds, not_locks>>

NextLocks ==
    \E t \in LockThreads :
        lock_round(t) \/ lock_exclusive(t) \/ lock_shared(t) \/ lock_release(t)

SpecLocks == InitLocks /\ [][NextLocks]_vars

\* The thread's next call is a lock it cannot take now.
LockBlocked(t) ==
    /\ lk_prog[t] # <<>>
    /\ Head(lk_prog[t])[1] \in {"lock", "lock_shared"}
    /\ ~ENABLED (lock_exclusive(t) \/ lock_shared(t))
\* The threads whose holding of a mutex blocks t.
LockWaitsFor(t) ==
    LET mut == Head(lk_prog[t])[2] IN
        IF Head(lk_prog[t])[1] = "lock"
        THEN Holders(mut, "lock") \cup Holders(mut, "lock_shared")
        ELSE Holders(mut, "lock")
\* The mutexes of the live collections.
CollectionLocks == {"m_entities", "m_asteroids"}

CircleCenters == {<<0, 0>>, <<300, 0>>, <<300, 400>>, <<310, 400>>, <<0, 500>>}
CircleRadii == {0, 100, 200, 300}

not_fn ==
    <<game_vars, queue_vars, adds, ent_vars, vec_vars, cq_vars, input_vars,
      poly_vars, call_log, shape_vars, lock_vars>>

InitCircles ==
    /\ NoGame
    /\ NoQueue
    /\ adds = <<>>
    /\ NoEnts /\ NoVec /\ NoCq /\ NoInput /\ NoPoly
    /\ call_log = <<>>
    /\ NoShape /\ NoLocks
    /\ fn_in \in [a : [pos : CircleCenters, radius : CircleRadii],
                  b : [pos : CircleCenters, radius : CircleRadii]]
    /\ fn_out = [done |-> FALSE]

\* A test that uses the caller's radius only.
entity_is_collided_own_radius(e, other) ==
    LengthSquared(VSub(e.pos, other.pos)) <= e.radius * e.radius

\* entity::is_collided: distance_between_centers <= sum_of_radii, both sides
\* non-negative
entity_is_collided(e, other) ==
    LET sum_of_radii == e.radius + other.radius
    IN LengthSquared(VSub(e.pos, other.pos)) <= sum_of_radii * sum_of_radii

\* a.is_collided(b) and b.is_collided(a)
circles_test ==
    /\ ~fn_out.done
    /\ fn_out' = [done |-> TRUE,
                  ab |-> entity_is_collided(fn_in.a, fn_in.b),
                  ba |-> entity_is_collided(fn_in.b, fn_in.a)]
    /\ UNCHANGED <<fn_in, not_fn>>

NextCircles == circles_test

SpecCircles == InitCircles /\ [][NextCircles]_vars

\* C27: the default test answers true exactly when the distance between the
\* two centers is at most the sum of the two radii, and a's answer about b
\* is b's answer about a.
C27_TwoCircleTest ==
    fn_out.done =>
        LET dx == fn_in.a.pos[1] - fn_in.b.pos[1]
            dy == fn_in.a.pos[2] - fn_in.b.pos[2]
            sum == fn_in.a.radius + fn_in.b.radius
        IN /\ fn_out.ab = (dx * dx + dy * dy <= sum * sum)
           /\ fn_out.ab = fn_out.ba

\* Two circles that touch in one point, of different radii: both answer true.
C27_Witness ==
    /\ fn_out.done
    /\ fn_in.a.pos = <<0, 0>> /\ fn_in.b.pos = <<300, 400>>
    /\ fn_in.a.radius = 200 /\ fn_in.b.radius = 300
    /\ fn_out.ab /\ fn_out.ba

(***************************************************************************)
(* collides_with_line under test: a segment between two points and an      *)
(* asteroid.  The coordinates are whole pixels and every segment is        *)
(* parallel to an axis or a multiple of (3, 4), so that the length and the *)
(* projection are exact in tenths of a pixel.                              *)
(***************************************************************************)
SegmentPoints == {<<0, 0>>, <<300, 400>>, <<300, 0>>, <<0, 400>>}
SegmentCenters ==
    {<<x, y>> : x \in {-100, 0, 100, 150, 200, 300, 400},
                y \in {-100, 0, 100, 200, 390, 400, 500}}
SegmentSizes == 1..3

InitLine ==
    /\ NoGame
    /\ NoQueue
    /\ adds = <<>>
    /\ NoEnts /\ NoVec /\ NoCq /\ NoInput /\ NoPoly
    /\ call_log = <<>>
    /\ NoShape /\ NoLocks
    /\ fn_in \in [point_a : SegmentPoints, point_b : SegmentPoints,
                  other : [pos : SegmentCenters, size : SegmentSizes]]
    /\ fn_out = [done |-> FALSE]

\* collides_with_line(point_a, point_b, other) on two different points
line_test ==
    /\ ~fn_out.done
    /\ fn_in.point_a # fn_in.point_b
    /\ fn_out' = [done |-> TRUE,
                  hit |-> collides_with_line(fn_in.point_a, fn_in.point_b, fn_in.other)]
    /\ UNCHANGED <<fn_in, not_fn>>

\* collides_with_line on a segment of length 0: the assumption
\* p_vector.length() > 0 is false and the behaviour is undefined
line_test_degenerate ==
    /\ ~fn_out.done
    /\ fn_in.point_a = fn_in.point_b
    /\ \E hit \in BOOLEAN : fn_out' = [done |-> TRUE, hit |-> hit]
    /\ UNCHANGED <<fn_in, not_fn>>

NextLine == line_test \/ line_test_degenerate

SpecLine == InitLine /\ [][NextLine]_vars

\* In whole pixels: the segment vector, the vector from its first point to
\* the center, their inner product and the radius.
LineSeg == <<(fn_in.point_b[1] - fn_in.point_a[1]) \div 10,
             (fn_in.point_b[2] - fn_in.point_a[2]) \div 10>>
LineToCenter == <<(fn_in.other.pos[1] - fn_in.point_a[1]) \div 10,
                  (fn_in.other.pos[2] - fn_in.point_a[2]) \div 10>>
LineInner == LineSeg[1] * LineToCenter[1] + LineSeg[2] * LineToCenter[2]
LineRadius == (size_scale_factor * fn_in.other.size) \div 10
\* 0 < adj < |p2 - p1|, for adj = LineInner / |p2 - p1|
ProjectionInsideSpan == LineInner > 0 /\ LineInner < LengthSquared(LineSeg)
\* |center - p1|^2 - adj^2 <= radius^2, multiplied by |p2 - p1|^2
PerpendicularWithinRadius ==
    LengthSquared(LineToCenter) * LengthSquared(LineSeg) - LineInner * LineInner
        <= LineRadius * LineRadius * LengthSquared(LineSeg)

HullRotations == {0, 90}
HullOffsets ==
    {<<x, y>> : x \in {-1500, -260, -200, -100, 0, 100, 200, 400, 2000},
                y \in {-1500, -300, -100, 0, 100, 300, 2000}}
HullPosition == <<win_x \div 2, win_y \div 2>>

InitHull ==
    /\ NoGame
    /\ NoQueue
    /\ adds = <<>>
    /\ NoEnts /\ NoVec /\ NoCq /\ NoInput /\ NoPoly
    /\ call_log = <<>>
    /\ NoShape /\ NoLocks
    /\ \E rot \in HullRotations, off \in HullOffsets, size \in SegmentSizes :
           fn_in = [player |-> [pos |-> HullPosition, rot |-> rot],
                    other |-> [pos |-> VAdd(HullPosition, off), size |-> size]]
    /\ fn_out = [done |-> FALSE]

\* player.is_collided(other)
hull_test ==
    /\ ~fn_out.done
    /\ fn_out' = [done |-> TRUE, hit |-> player_is_collided(fn_in.player, fn_in.other)]
    /\ UNCHANGED <<fn_in, not_fn>>

NextHull == hull_test

SpecHull == InitHull /\ [][NextHull]_vars

\* The three hull vertices of the player under test, and its edges.
HullVertices == {transformed_point(fn_in.player, idx) : idx \in 1..3}
HullEdges == {<<transformed_point(fn_in.player, 1), transformed_point(fn_in.player, 2)>>,
              <<transformed_point(fn_in.player, 1), transformed_point(fn_in.player, 3)>>,
              <<transformed_point(fn_in.player, 2), transformed_point(fn_in.player, 3)>>}
\* The squared distance of the centers exceeds 9 (rPlayer + rAsteroid)^2.
HullFar ==
    LengthSquared(VSub(fn_in.player.pos, fn_in.other.pos)) >
        9 * (player_radius + asteroid_radius(fn_in.other))
          * (player_radius + asteroid_radius(fn_in.other))
\* The squared distance of a point from the asteroid's center.
FromCenterSquared(point) == LengthSquared(VSub(point, fn_in.other.pos))

\* C29: player::is_collided answers false when the squared distance of the
\* centers exceeds 9 (rPlayer + rAsteroid)^2, and otherwise true exactly
\* when a hull vertex is strictly inside the asteroid's circle or a hull
\* edge passes the segment test.
C29_HullTest ==
    fn_out.done =>
        /\ HullFar => ~fn_out.hit
        /\ ~HullFar =>
               (fn_out.hit <=>
                    \/ \E v \in HullVertices :
                           FromCenterSquared(v) <
                               asteroid_radius(fn_in.other) * asteroid_radius(fn_in.other)
                    \/ \E e \in HullEdges : collides_with_line(e[1], e[2], fn_in.other))

\* The tip of the hull is on the asteroid's circle, no vertex is inside it
\* and no edge passes the segment test: the answer is false.
C29_Witness ==
    /\ fn_out.done /\ ~fn_out.hit /\ ~HullFar
    /\ \E v \in HullVertices :
           FromCenterSquared(v) = asteroid_radius(fn_in.other) * asteroid_radius(fn_in.other)

(***************************************************************************)
(* The speeds of the entities.  A player under test is put at a position   *)
(* of the harness before each tick, its keys set, and ticked; the run has  *)
(* no bound on the number of ticks.                                        *)
(***************************************************************************)
SpeedRotations == {0}
\* The middle of the window, and a position a tick's move from the left
\* side.
SpeedPositions == {HullPosition, <<player_radius + 10, win_y \div 2>>}
SpeedKeys == {{}, {"forward"}, {"backward"}}
\* The angles asteroids are created with.
SpeedAngles == {0, 45, 90, 135, 180, 225, 270, 315}

InitSpeed ==
    /\ NoGame
    /\ NoQueue
    /\ adds = <<>>
    /\ NoEnts /\ NoVec /\ NoCq /\ NoInput /\ NoPoly
    /\ call_log = <<>>
    /\ NoShape /\ NoLocks
    /\ \E rot \in SpeedRotations :
           fn_in = [pos |-> HullPosition, vel |-> <<0, 0>>, accel |-> <<0, 0>>,
                    rot |-> rot]
    /\ fn_out = [done |-> FALSE]

\* set_position(pos), the intent calls that leave movement set, tick(), and
\* the player put back
speed_test_tick(pos, movement) ==
    /\ ~fn_out.done
    /\ fn_in' = [player_move([fn_in EXCEPT !.pos = pos], movement)
                     EXCEPT !.pos = HullPosition]
    /\ UNCHANGED <<fn_out, not_fn>>

\* player::shoot adds a projectile
speed_test_shoot ==
    /\ ~fn_out.done
    /\ fn_in.vel = <<0, 0>> /\ fn_in.accel = <<0, 0>>
    /\ \E rot \in SpeedAngles :
           fn_out' = [done |-> TRUE, made |-> projectile(1, fn_in.pos, rot)]
    /\ UNCHANGED <<fn_in, not_fn>>

\* an asteroid is constructed
speed_test_spawn ==
    /\ ~fn_out.done
    /\ fn_in.vel = <<0, 0>> /\ fn_in.accel = <<0, 0>>
    /\ \E angle \in SpeedAngles, size \in SegmentSizes :
           fn_out' = [done |-> TRUE, made |-> asteroid(1, fn_in.pos, angle, size)]
    /\ UNCHANGED <<fn_in, not_fn>>

NextSpeed ==
    \/ \E pos \in SpeedPositions, movement \in SpeedKeys : speed_test_tick(pos, movement)
    \/ speed_test_shoot
    \/ speed_test_spawn

SpecSpeed == InitSpeed /\ [][NextSpeed]_vars

MaxHitOps == 3
\* Tick blocks the test runs.
MaxHitTicks == 2

\* A tier-2 asteroid mid-window, a tier-1 asteroid overlapping it, and a
\* tier-1 asteroid centred on the left edge.
HitAsteroids ==
    {[pos |-> <<2500, 2500>>, size |-> 2],
     [pos |-> <<2560, 2500>>, size |-> 1],
     [pos |-> <<0, 2500>>, size |-> 1]}
\* Start positions of the projectiles, all flying left: two that the first
\* move takes into the mid-window asteroids, and one that it takes across the
\* left edge.
HitShots == {<<2530, 2500>>, <<2530, 2520>>, <<20, 2500>>}

InitHits ==
    /\ InitGame
    /\ NoQueue
    /\ adds = <<>>
    /\ NoTests

\* data::add_asteroid(asteroid&&) with an asteroid the test constructed
hits_test_asteroid ==
    /\ pc = "draw"
    /\ ent_ops < MaxHitOps
    /\ \E a \in HitAsteroids :
           m_incoming_asteroids' =
               push(m_incoming_asteroids, asteroid(next_id, a.pos, 0, a.size))
    /\ next_id' = next_id + 1
    /\ ent_ops' = ent_ops + 1
    /\ UNCHANGED <<m_entities, m_incoming_entities, m_asteroids, m_game_score,
                   m_game_over, m_game_over_screen, player, m_movement, shots,
                   main_thread, spawner_pc, spawned, key_calls, history,
                   queue_vars, adds, ents, ent_pc, vec_vars, cq_vars,
                   input_vars, poly_vars, aux_vars>>

\* data::add_projectile(position, rotation), the rotation being 0
hits_test_shoot ==
    /\ pc = "draw"
    /\ ent_ops < MaxHitOps
    /\ \E pos \in HitShots :
           m_incoming_entities' = push(m_incoming_entities, projectile(next_id, pos, 0))
    /\ next_id' = next_id + 1
    /\ ent_ops' = ent_ops + 1
    /\ UNCHANGED <<m_entities, m_asteroids, m_incoming_asteroids, m_game_score,
                   m_game_over, m_game_over_screen, player, m_movement, shots,
                   main_thread, spawner_pc, spawned, key_calls, history,
                   queue_vars, adds, ents, ent_pc, vec_vars, cq_vars,
                   input_vars, poly_vars, aux_vars>>

\* The test runs one tick block's kill_expired() and data::tick().
hits_test_step ==
    /\ pc = "draw"
    /\ ticks < MaxHitTicks
    /\ pc' = "sweep"
    /\ ticks' = ticks + 1
    /\ UNCHANGED <<store, player, m_movement, shots, it_e, it_a,
                   spawner_pc, spawned, key_calls, next_id, history, not_game>>

NextHits ==
    \/ hits_test_asteroid
    \/ hits_test_shoot
    \/ hits_test_step
    \/ kill_expired
    \/ tick \/ drain_asteroids \/ drain_entities
    \/ tick_entities_entity \/ collision_reaction \/ tick_entities_asteroid

SpecHits == InitHits /\ [][NextHits]_vars

\* The asteroids on the staging queue that asteroid a staged by a split: one
\* tier down, at a's position. (Between data::tick's drain and its asteroid
\* traversal, the queue holds nothing but the children staged in this tick
\* and no live asteroid has moved since.)
ChildrenOf(a) ==
    {k \in 1..Len(m_incoming_asteroids) :
         /\ m_incoming_asteroids[k].pos = a.pos
         /\ m_incoming_asteroids[k].size = a.size - 1}

\* The live asteroids that share a's tier and position (a among them).
TwinsOf(a) ==
    {i \in 1..Len(m_asteroids) :
         m_asteroids[i].pos = a.pos /\ m_asteroids[i].size = a.size}

\* C31: each asteroid runs its split step at most once: while the entities
\* of a data::tick are being ticked, the staging queue holds at most two
\* children for each live asteroid (two for each of the live asteroids of one
\* tier at one position), however many projectiles overlap it.
C31_AsStated ==
    pc \in {"tickE", "coll"} =>
        \A i \in 1..Len(m_asteroids) :
            Cardinality(ChildrenOf(m_asteroids[i])) <=
                2 * Cardinality(TwinsOf(m_asteroids[i]))

\* Two projectiles have hit the one live asteroid, of tier 2, in one
\* data::tick, and it has staged four children.
C31_Witness ==
    /\ pc = "tickE"
    /\ Len(m_asteroids) = 1 /\ m_asteroids[1].size = 2
    /\ Cardinality(ChildrenOf(m_asteroids[1])) = 4
    /\ m_game_score = 2 * score_per_asteroid

\* C32: a projectile that has hit an asteroid does nothing more: once its
\* expiration flag is set by a hit, the rest of its collision traversal
\* changes neither the score nor the entity staging queue nor any asteroid,
\* so it scores once, stages one popup and collides one asteroid.
C32_AsStated ==
    [][(pc = "coll" /\ m_entities[it_e].expired) =>
           /\ m_game_score' = m_game_score
           /\ m_incoming_entities' = m_incoming_entities
           /\ m_asteroids' = m_asteroids
           /\ m_incoming_asteroids' = m_incoming_asteroids
      ]_vars

\* The only projectile there is has ended its tick after hitting two live
\* asteroids that overlap: the score went up twice and two popups are staged.
C32_Witness ==
    /\ pc = "tickE" /\ it_e = 2
    /\ Len(m_entities) = 1 /\ m_entities[1].kind = "projectile"
    /\ Len(m_asteroids) = 2
    /\ m_asteroids[1].expired /\ m_asteroids[2].expired
    /\ m_game_score = 2 * score_per_asteroid
    /\ Len(m_incoming_entities) = 2

\* C38: a projectile whose move takes it out of the window is marked expired
\* by that tick, which ends there: the score, the asteroids and both staging
\* queues are as before and no collision traversal starts; every projectile
\* outside the window is expired, none is ever inside a collision traversal,
\* and no expired entity is handed to its tick again.
C38_OutOfBoundsEndsTick ==
    /\ [](\A i \in 1..Len(m_entities) :
              (m_entities[i].kind = "projectile"
               /\ ~shape_within_bounds(m_entities[i].pos, 0)) => m_entities[i].expired)
    /\ [](pc = "coll" => shape_within_bounds(m_entities[it_e].pos, 0))
    /\ []((pc = "tickE" /\ it_e \in 1..Len(m_entities)) => ~m_entities[it_e].expired)
    /\ [][(/\ pc = "tickE" /\ it_e \in 1..Len(m_entities)
           /\ m_entities[it_e].kind = "projectile"
           /\ ~shape_within_bounds(
                  VAdd(m_entities[it_e].pos, TimesTickRate(m_entities[it_e].vel)), 0)) =>
              /\ m_entities'[it_e].expired
              /\ pc' = "tickE" /\ it_e' = it_e + 1
              /\ m_game_score' = m_game_score
              /\ m_asteroids' = m_asteroids
              /\ m_incoming_asteroids' = m_incoming_asteroids
              /\ m_incoming_entities' = m_incoming_entities
         ]_vars

\* A projectile has crossed the left edge into the circle of a live asteroid
\* centred on that edge: it is expired, the asteroid is not, the score is 0.
C38_Witness ==
    /\ pc = "tickE" /\ it_e = 2
    /\ Len(m_entities) = 1 /\ m_entities[1].kind = "projectile"
    /\ m_entities[1].expired
    /\ ~shape_within_bounds(m_entities[1].pos, 0)
    /\ \E i \in 1..Len(m_asteroids) :
           /\ projectile_is_collided(m_entities[1], m_asteroids[i])
           /\ ~m_asteroids[i].expired
    /\ m_game_score = 0
    /\ m_incoming_entities = <<>> /\ m_incoming_asteroids = <<>>

\* C33: the game-over flag is set only over an asteroid that is not expired:
\* the step that sets it leaves the player's hull overlapping a live asteroid
\* whose expiration flag is clear.
C33_AsStated ==
    [][(~m_game_over /\ m_game_over') =>
           \E i \in 1..Len(m_asteroids) :
               /\ ~m_asteroids[i].expired
               /\ player_is_collided(player', m_asteroids[i])
      ]_vars

\* The player tick has set the flag while the only asteroids its hull
\* overlaps are expired ones, shot in the previous data::tick and not yet
\* swept.
C33_Witness ==
    /\ m_game_over /\ ~m_game_over_screen /\ pc = "sweep"
    /\ \E i \in 1..Len(m_asteroids) :
           m_asteroids[i].expired /\ player_is_collided(player, m_asteroids[i])
    /\ \A i \in 1..Len(m_asteroids) :
           player_is_collided(player, m_asteroids[i]) => m_asteroids[i].expired
    /\ m_game_score = score_per_asteroid

\* C34: copying a polymorphic<entity> preserves the expiration state: the
\* clone made by a copy construction or copy assignment from a polymorphic
\* that owns an entity is expired exactly when the original is.
C34_AsStated ==
    [][(PolyStep({"copy_construct", "copy_assign"}) /\ poly_pc' = "run"
        /\ polys[PolySource].ptr # 0) =>
           heap'[polys'[PolyTarget].ptr].obj.expired =
               heap[polys[PolySource].ptr].obj.expired
      ]_vars

\* B was copy-constructed from A, an expired temp_text, and is not expired.
C34_Witness ==
    /\ Len(poly_log) >= 3
    /\ poly_log[Len(poly_log)] = <<"copy_construct", "B", "A">>
    /\ Valued("A") /\ Valued("B")
    /\ Obj("A").kind = "temp_text" /\ Obj("B").kind = "temp_text"
    /\ Obj("A").expired /\ ~Obj("B").expired
    /\ Obj("A").pos = Obj("B").pos

(***************************************************************************)
(* Contradictory intents: before each tick block the test leaves any set   *)
(* of the five intent bits set on the player, then the tick block runs;    *)
(* the test may end the game with data::game_over().                       *)
(***************************************************************************)
\* Tick blocks the test runs.
MaxPriorityTicks == 2
Intents == {"forward", "backward", "left", "right", "shoot"}

InitPriority ==
    /\ InitGame
    /\ NoQueue
    /\ adds = <<>>
    /\ NoTests

\* The intent calls (forward_down() ... shoot_up()) that leave exactly the
\* bits of movement set, and the main loop entering its tick block.
priority_test_keys(movement) ==
    /\ pc = "draw"
    /\ ticks < MaxPriorityTicks
    /\ m_movement' = movement
    /\ pc' = "player"
    /\ ticks' = ticks + 1
    /\ UNCHANGED <<store, player, shots, it_e, it_a, spawner_pc, spawned,
                   key_calls, next_id, history, not_game>>

\* The test calls data::game_over(): m_game_over.test_and_set()
over_test_game_over ==
    /\ ~m_game_over
    /\ m_game_over' = TRUE
    /\ UNCHANGED <<m_entities, m_incoming_entities, m_asteroids,
                   m_incoming_asteroids, m_game_score, m_game_over_screen,
                   player, m_movement, shots, main_thread, spawner_pc, spawned,
                   key_calls, next_id, history, not_game>>

NextPriority ==
    \/ \E movement \in SUBSET Intents : priority_test_keys(movement)
    \/ over_test_game_over
    \/ player_tick \/ kill_expired
    \/ tick \/ drain_asteroids \/ drain_entities
    \/ tick_entities_entity \/ collision_reaction \/ tick_entities_asteroid

SpecPriority == InitPriority /\ [][NextPriority]_vars

\* C35: in a player tick of the running game, under the speed cap, with the
\* forward and backward bits both set only the forward acceleration
\* {-10, 0} rotated by the hull's rotation is added; with the left and
\* right bits both set the hull turns left by turn_angle; the shoot bit
\* changes nothing of the player's motion, and whatever the other four bits
\* are, a set shoot bit stages one projectile (the first shot: no shot is
\* too recent) and a clear one stages none.
C35_FixedPriority ==
    [][(pc = "player" /\ pc' = "sweep" /\ ~m_game_over) =>
           LET under == 16 * LengthSquared(player.vel) <= 9 * max_speed * max_speed
           IN /\ ({"forward", "backward"} \subseteq m_movement /\ under) =>
                     /\ player'.accel =
                            VAdd(player.accel, RotatedBy(<<-100, 0>>, player.rot))
                     /\ player' = player_move(player, m_movement \ {"backward"})
              /\ {"left", "right"} \subseteq m_movement =>
                     /\ player'.rot = (player.rot - turn_angle) % 360
                     /\ player' = player_move(player, m_movement \ {"right"})
              /\ player' = player_move(player, m_movement \ {"shoot"})
              /\ ("shoot" \in m_movement /\ shots = 0) =>
                     /\ Len(m_incoming_entities') = Len(m_incoming_entities) + 1
                     /\ m_incoming_entities'[Len(m_incoming_entities')].kind = "projectile"
              /\ "shoot" \notin m_movement =>
                     m_incoming_entities' = m_incoming_entities
      ]_vars

\* The player was ticked twice with all five bits set: it accelerated
\* forward twice, turned left twice and shot.
C35_Witness ==
    /\ pc = "sweep" /\ ticks = 2
    /\ m_movement = Intents
    /\ player.rot = (0 - 2 * turn_angle) % 360
    /\ player.accel[1] < -100
    /\ shots >= 1

(***************************************************************************)
(* The spawner thread and the game-over flag: the game runs, the only key   *)
(* pressed being the shoot key, and the test calls data::game_over() at a  *)
(* moment of its choice.                                                   *)
(***************************************************************************)
InitOver ==
    /\ InitGame
    /\ NoQueue
    /\ adds = <<>>
    /\ NoTests

NextOver == MainLoop \/ Spawner \/ shoot_down \/ over_test_game_over

\* The spawner thread is scheduled again and again, and its sleep ends.
FairOver == InitOver /\ [][NextOver]_vars /\ WF_vars(Spawner)

KeyScancodes == {"W", "A", "Escape"}

InitKeys ==
    /\ NoGame
    /\ NoQueue
    /\ adds = <<>>
    /\ NoEnts /\ NoVec /\ NoPoly /\ NoAux
    /\ waiting = {}
    /\ cq_pc = [t \in InputThreads |-> "idle"]
    /\ cq_val = [t \in InputThreads |-> "none"]
    /\ cq_ret = <<>>
    /\ cq_pushed = 0
    /\ cq_got = <<>>
    /\ main_pc = "poll" /\ in_pc = "loop"
    /\ is_open = TRUE /\ stop_requested = FALSE

\* What the recorded steps leave alone.
not_keys ==
    <<store, player, shots, main_thread, spawner_pc, spawned, key_calls,
      next_id, history, m_cond, q_pc, q_pushed, q_log, adds, ent_vars,
      vec_vars, poly_vars, shape_vars, lock_vars, fn_vars, cq_ret,
      cq_pushed, cq_got, waiting, m_dat, m_mut>>

\* poll_event returns a KeyPressed or KeyReleased event: the call of
\* control_input.push with the mapped key
keys_main_key_event(key) ==
    /\ main_pc = "poll"
    /\ cq_pushed < MaxKeyEvents
    /\ main_pc' = "push_key"
    /\ cq_pc' = [cq_pc EXCEPT ![MainThread] = "want_push"]
    /\ cq_val' = [cq_val EXCEPT ![MainThread] = key]
    /\ call_log' = Append(call_log, <<MainThread, "push", key>>)
    /\ UNCHANGED <<m_movement, in_pc, is_open, stop_requested, not_keys>>

\* poll_event returns a Closed event: the call of control_input.push(eof)
keys_main_closed_event ==
    /\ main_pc = "poll"
    /\ main_pc' = "push_eof"
    /\ cq_pc' = [cq_pc EXCEPT ![MainThread] = "want_push"]
    /\ cq_val' = [cq_val EXCEPT ![MainThread] = "eof"]
    /\ call_log' = Append(call_log, <<MainThread, "push", "eof">>)
    /\ UNCHANGED <<m_movement, in_pc, is_open, stop_requested, not_keys>>

\* wait_pop has returned: if (key == eof) return; translate the key
keys_input_after_pop ==
    /\ in_pc = "wait_pop"
    /\ cq_pc[InputThread] = "idle"
    /\ IF cq_val[InputThread] = "eof"
       THEN in_pc' = "done" /\ UNCHANGED <<m_movement, call_log>>
       ELSE /\ m_movement' =
                translate_keypress_to_player_action(m_movement,
                                                    cq_val[InputThread])
            /\ call_log' =
                   Append(call_log, <<InputThread, "apply", cq_val[InputThread]>>)
            /\ in_pc' = "loop"
    /\ UNCHANGED <<cq_pc, cq_val, main_pc, is_open, stop_requested, not_keys>>

NextKeys ==
    \/ \E in \in KeyScancodes :
           \/ keys_main_key_event(map_player_keypress(in))
           \/ keys_main_key_event(map_player_key_release(in))
    \/ keys_main_closed_event
    \/ cq_push_lock(MainThread) \/ cq_push(MainThread)
    \/ main_after_push
    \/ main_no_event
    \/ main_loop_test
    \/ main_joined
    \/ input_loop
    \/ cq_wait_pop_lock(InputThread) \/ cq_wait_pop(InputThread)
    \/ cq_spurious_wake(InputThread)
    \/ keys_input_after_pop

SpecKeys == InitKeys /\ [][NextKeys]_vars

\* The keys main called control_input.push with, and the keys the input
\* thread called translate_keypress_to_player_action with, each in order.
LogKeys(what) ==
    LET sel == SelectSeq(call_log, LAMBDA c : c[2] = what)
    IN [k \in 1..Len(sel) |-> sel[k][3]]
PushedKeys == LogKeys("push")
AppliedKeys == LogKeys("apply")

\* C37: the keys applied to the player are, in order, the first keys main
\* pushed (so each is applied at most once and none out of turn); eof is
\* never applied and nothing pushed after it is, eof being the last key
\* pushed; and the player's intent bits change only by the application of
\* the key last popped.
C37_AppliedInPushOrder ==
    /\ [](/\ Len(AppliedKeys) <= Len(PushedKeys)
          /\ AppliedKeys = SubSeq(PushedKeys, 1, Len(AppliedKeys))
          /\ \A i \in 1..Len(PushedKeys) :
                 PushedKeys[i] = "eof" =>
                     /\ i = Len(PushedKeys)
                     /\ Len(AppliedKeys) < i)
    /\ [][m_movement' # m_movement =>
              /\ Len(AppliedKeys') = Len(AppliedKeys) + 1
              /\ m_movement' =
                     translate_keypress_to_player_action(
                         m_movement, AppliedKeys'[Len(AppliedKeys')])
         ]_vars

\* Two keys and eof were queued before the input thread popped any; it has
\* applied both keys in the order pushed and ended on eof.
C37_Witness ==
    /\ in_pc = "done" /\ cq_val[InputThread] = "eof"
    /\ Len(call_log) = 5
    /\ call_log[1][2] = "push" /\ call_log[2][2] = "push" /\ call_log[3][2] = "push"
    /\ AppliedKeys = <<"forward_pressed", "left_pressed">>
    /\ m_movement = {"forward", "left"}

(***************************************************************************)
(* The cheap reject of player::is_collided under test: a player at the     *)
(* middle of the window in each quarter turn, and asteroids of every tier  *)
(* next to the hull, just past the reject distance of one tier or another, *)
(* and far off.                                                            *)
(***************************************************************************)
RejectRotations == {0, 90, 180, 270}
RejectOffsets ==
    {<<x, y>> : x \in {-1400, -1040, -740, -250, 0, 250, 740, 1040, 1400},
                y \in {-1400, -740, -250, 0, 250, 740, 1400}}

InitReject ==
    /\ NoGame
    /\ NoQueue
    /\ adds = <<>>
    /\ NoEnts /\ NoVec /\ NoCq /\ NoInput /\ NoPoly
    /\ call_log = <<>>
    /\ NoShape /\ NoLocks
    /\ \E rot \in RejectRotations, off \in RejectOffsets, size \in SegmentSizes :
           fn_in = [player |-> [pos |-> HullPosition, rot |-> rot],
                    other |-> [pos |-> VAdd(HullPosition, off), size |-> size]]
    /\ fn_out = [done |-> FALSE]

\* player.is_collided(other)
reject_test ==
    /\ ~fn_out.done
    /\ fn_out' = [done |-> TRUE, hit |-> player_is_collided(fn_in.player, fn_in.other)]
    /\ UNCHANGED <<fn_in, not_fn>>

NextReject == reject_test

SpecReject == InitReject /\ [][NextReject]_vars

\* The vertex and edge tests of player::is_collided, without the reject.
HullTouches ==
    \/ \E v \in HullVertices :
           FromCenterSquared(v) <
               asteroid_radius(fn_in.other) * asteroid_radius(fn_in.other)
    \/ \E e \in HullEdges : collides_with_line(e[1], e[2], fn_in.other)

\* C39: the cheap reject never changes the answer: player::is_collided
\* answers what the vertex and edge tests alone answer, and whenever the
\* squared distance of the centers exceeds 9 (rPlayer + rAsteroid)^2 no hull
\* vertex is inside the asteroid's circle and no hull edge passes the
\* segment test.
C39_RejectIsSound ==
    /\ HullFar => ~HullTouches
    /\ fn_out.done => (fn_out.hit <=> HullTouches)

\* A tier-1 asteroid just past the reject distance, on the side of the
\* hull's rear vertex: rejected, and neither a vertex nor an edge touches it.
C39_Witness ==
    /\ fn_out.done /\ ~fn_out.hit
    /\ HullFar
    /\ fn_in.other.size = 1
    /\ fn_in.player.rot = 0
    /\ fn_in.other.pos = VAdd(HullPosition, <<-740, 0>>)

====
